---- MODULE Spec2Model ----
(***************************************************************************)
(* Model of tradio's playback engine (src/player/rodio/mod.rs): the Rodio  *)
(* player facade, the cancellation flag of Controls, the rodio sink and    *)
(* its source queue, and the ActiveOutput device binding.                  *)
(*                                                                         *)
(* Two execution paths are modelled.  The control thread is the UI event   *)
(* loop (src/ui/mod.rs:142-159): it issues one Player call at a time, and  *)
(* `pc` is its position inside the call it is executing.  The playback     *)
(* path is the output stream's callback pulling samples from the shared    *)
(* queue; `apc` is its position inside one pull.  Every access to shared   *)
(* state (an atomic load or store, a queue operation) is a step of its     *)
(* own, so the two paths interleave as the threads do.                     *)
(***************************************************************************)
EXTENDS Integers, Sequences, FiniteSets, TLC

\* ------------------------------------------------------------------ bounds

\* Number of play calls whose source construction succeeds.
MaxPlays == 2
\* A session's stream ends (or fails to decode) after at most this many samples.
MaxSamples == 3
\* The same two bounds where the device is switched under a playing session.
MaxSwitchPlays == 1
MaxSwitchSamples == 2
\* Number of output streams opened over a run.
MaxStreams == 2
\* Number of devices host.output_devices() yields.
MaxHostDevices == 2
\* Packets a stream serves before it ends, and samples a packet decodes to.
MaxPackets == 2
MaxPacketLen == 2
\* ACCESS_PERIOD (15 ms) counted in samples of the source: rodio turns the
\* period into period_ms * sample_rate / 1000 * channels samples.
AccessPeriodSamples == 2
\* Tags of a station, characters of a tag, and rows of the library.
MaxTags == 2
MaxTagLen == 1
MaxRows == 2
\* Values of a filter's limit and offset, and records of a catalog response.
MaxFilterValue == 10
MaxResponse == 3

\* ------------------------------------------------------------- host devices

\* Devices of the host that support an output stream (host.output_devices()).
HostOutputs == {"d1", "d2"}
\* Devices of the host that support input only: host.devices() yields them,
\* host.output_devices() does not.
HostInputs == {"mic"}
\* Everything host.devices() enumerates.
HostDevices == HostOutputs \cup HostInputs
\* The host's default output device.
HostDefault == "d1"
\* Identifiers a caller may pass to use_device; "dx" is no device of the host.
DeviceIds == HostDevices \cup {"dx"}

\* ActiveOutput::default()
NoOutput ==
  [device |-> [id |-> "", is_active |-> FALSE, is_default |-> FALSE], stream |-> 0]

\* Option<Device>::None
NoDevice == [id |-> "", is_active |-> FALSE, is_default |-> FALSE]

\* Device values a caller can pass: for a device devices() lists, a snapshot
\* taken by devices() at some earlier time, so is_active may be stale; for any
\* other identifier a value with both flags clear.
DeviceArgs ==
  {[id |-> i, is_active |-> a, is_default |-> (i = HostDefault)] :
     i \in HostOutputs, a \in BOOLEAN}
    \cup {[id |-> i, is_active |-> FALSE, is_default |-> FALSE] :
             i \in DeviceIds \ HostOutputs}

\* impl PartialEq for Device: identifier-based, None differs from every device.
DeviceEqAllFields(a, b) == a = b
DeviceEq(a, b) == a.id = b.id

\* ------------------------------------------------------------------ volume

I8 == -128 .. 127

Clamp(v, lo, hi) == IF v < lo THEN lo ELSE IF v > hi THEN hi ELSE v

Abs(n) == IF n < 0 THEN -n ELSE n

RECURSIVE Pow2(_)
Pow2(n) == IF n = 0 THEN 1 ELSE 2 * Pow2(n - 1)

CeilDiv(n, d) == (n + d - 1) \div d

\* Round n/d to the nearest integer, ties to even (IEEE round-to-nearest).
RoundHalfEven(n, d) ==
  LET q == n \div d
      r == n % d
  IN  IF 2 * r > d \/ (2 * r = d /\ q % 2 = 1) THEN q + 1 ELSE q

\* An f32 is sign * m * 2^(-e) with a 24-bit significand m (2^23 <= m <= 2^24),
\* or zero (m = 0).
F32One == [s |-> 1, m |-> 8388608, e |-> 23]

\* f32::from(v) / 100.0 for an integer v, |v| <= 128: the quotient rounded to
\* 24 significant bits.
F32Div100(v) ==
  IF v = 0 THEN [s |-> 1, m |-> 0, e |-> 0]
  ELSE LET a == Abs(v)
           need == CeilDiv(838860800, a)
           e == CHOOSE k \in 23 .. 30 :
                  Pow2(k) >= need /\ (k = 23 \/ Pow2(k - 1) < need)
       IN  [s |-> IF v < 0 THEN -1 ELSE 1,
            m |-> RoundHalfEven(a * Pow2(e), 100),
            e |-> e]

\* (x * 100.0).round(): the product rounded to 24 significant bits, then to
\* the nearest integer, halves away from zero.
F32Mul100Round(x) ==
  IF x.m = 0 THEN 0
  ELSE LET p == x.m * 100
           k == CHOOSE j \in 0 .. 7 :
                  p \div Pow2(j) < 16777216 /\ (j = 0 \/ p \div Pow2(j - 1) >= 16777216)
           m2 == RoundHalfEven(p, Pow2(k))
           e2 == x.e - k
       IN  x.s * ((m2 + Pow2(e2 - 1)) \div Pow2(e2))

\* `as i8` saturates.
SatI8(n) == Clamp(n, -128, 127)

\* Rodio::volume
Volume(sinkVolume) == SatI8(F32Mul100Round(sinkVolume))

\* The value Rodio::set_volume hands to the sink.
SetVolumeNoUpperClamp(v) == F32Div100(Clamp(v, 0, 127))
SetVolumeNoLowerClamp(v) == F32Div100(Clamp(v, -128, 100))
SetVolumeValue(v) == F32Div100(Clamp(v, 0, 100))

\* Volume inputs tried while playback runs.
VolumeInputs == {-1}

\* ----------------------------------------------------------------- sources

\* A source in the sink queue: the session's Symphonia source inside the
\* Stoppable and PeriodicAccess wrappers of play, inside the sink's Done
\* wrapper.  id is the session, len the number of samples the stream yields
\* before it ends, pos the read position, until the samples left before the
\* next periodic check, stopped the Stoppable's flag, done the Done wrapper's.
NoSource ==
  [id |-> 0, len |-> 0, pos |-> 0, until |-> 0, stopped |-> FALSE, done |-> FALSE]

\* source.stoppable().periodic_access(ACCESS_PERIOD, access): the first check
\* runs on the first pull.
NewSource(id, len) ==
  [id |-> id, len |-> len, pos |-> 0, until |-> 1, stopped |-> FALSE, done |-> FALSE]

IsLive(src) == src.id # 0 /\ ~src.done

VARIABLES
  \* control thread
  pc,          \* position of the control thread inside the current call
  ret,         \* the last play or use_device call and its result ("pending" while it runs)
  playSrc,     \* play: the constructed source, or NoSource
  rx,          \* play: the receiver taken by sleep_until_end (a session id, 0: none)
  udArg,       \* use_device: the device passed (NoDevice outside a call)
  udStream,    \* use_device: the stream opened by this call (0: none)
  \* Rodio
  stop,        \* Controls.stop
  active_out,  \* ActiveOutput: [device, stream]
  \* the sink
  paused,      \* the sink's pause flag
  volume,      \* the sink's volume (an f32)
  count,       \* the sink's sound count: sink.len()
  sleepRx,     \* the sink's stored end-of-source receiver (a session id, 0: none)
  next_sounds, \* sources appended and not yet picked by the queue output
  signalled,   \* sessions whose end-of-source signal was sent
  \* the queue output(s) and the streams
  queues,      \* queue outputs by handle: the source each is playing
  streams,     \* streams opened so far: [dev, alive, src, pulled] (src: the queue handle
               \* its mixer holds, 0: none; pulled: it has pulled a session's sample)
  \* playback path
  apc,         \* position inside a pull
  puller,      \* the stream whose callback is pulling (0: none)
  \* history
  nplays,      \* sessions constructed so far
  delivered,   \* samples pulled from the queue, in pull order: <<session, index>>
  stopTargets, \* sessions that were queued when the stop flag was raised
  killed,      \* sessions ended by an observed stop flag
  sinceStop,   \* samples delivered since stop() was called on a queued session (-1: no such call pending)
  aoAtCall,    \* use_device: ActiveOutput when the running call began
  lastVolIn,   \* arguments of the last set_volume call ({}: none yet)
  \* the host
  hostOut,     \* names of the devices host.output_devices() yields, in its order
  hostDef,     \* name of host.default_output_device() ("": None)
  \* observers
  ctor,        \* how the player was built: "new_idle", "default_run" (default() is
               \* running), "default", "failed" (default() returned an error)
  everBound,   \* a use_device call has returned Ok
  running,     \* two callers: the thread whose call pc, ret, udArg, udStream and
               \* aoAtCall belong to
  ctx,         \* two callers: these five of the other thread
  conc,        \* two callers: the order in which the lock was acquired, each
               \* thread's call [arg, res, stream], and whether a call was made
               \* while the lock was held
  \* the decoder source
  media,       \* what the URL of the last play call serves (see Medias)
  dec,         \* the Symphonia source: [built, packets, next, pkt, len, offset, spec]
  emitted,     \* samples its pulls returned, in order: <<packet, index>>
  decRet,      \* result of its last operation: of the construction ("Ok" or the
               \* error), of a pull ("Some", "None", or "panic")
  \* the calls made
  idleStop,    \* stop() was called while no session was queued
  toggles,     \* the last two of the pause()/resume() calls, oldest first
  \* the library
  table,       \* rows of radio_stations, in rowid order (tags: the stored string)
  lib,         \* the records the calls made so far amount to, by id
  dbRet,       \* the last Storage call: [op, arg, id, rows]
  \* the catalog clients
  filter,      \* the StationsFilter of the running or last search
  url,         \* the Url search_url is building: [path, query]
  resp,        \* the records of the catalog's response
  stations,    \* the stations the client returned
  apiPc,       \* position inside the client call
  \* startup
  opt,         \* the parsed command line: [log_filepath, db_filepath]
  startup,     \* main: its position and the paths it opened: [pc, log, db]
  \* two players of one Rodio
  pctx,        \* two threads in play: playSrc and rx of the thread not running
  \* the UI and the App
  volStep,     \* the last volume key: [op, from, overflow]
  app,         \* App and Ui state and the call they are in:
               \* [pc, arg, device, playing, active_station, ret]
  tbl          \* a Table component: [len, stateful, selected, out]

ctlVars == <<pc, ret, playSrc, rx, udArg, udStream>>
sinkVars == <<paused, volume, count, sleepRx, next_sounds, signalled>>
outVars == <<active_out, streams>>
audioVars == <<queues, apc, puller>>
histVars == <<nplays, delivered, stopTargets, killed, sinceStop, aoAtCall, lastVolIn>>
hostVars == <<hostOut, hostDef>>
obsVars == <<ctor, everBound>>
lockVars == <<running, ctx, conc>>
decVars == <<media, dec, emitted, decRet>>
callVars == <<idleStop, toggles>>
libVars == <<table, lib, dbRet>>
apiVars == <<filter, url, resp, stations, apiPc>>
appVars == <<libVars, apiVars>>
mainVars == <<opt, startup>>
uiVars == <<volStep, app, tbl>>
tailVars == <<decVars, callVars, appVars, mainVars, pctx, uiVars>>
extVars == <<hostVars, obsVars, lockVars, tailVars>>
vars == <<ctlVars, stop, sinkVars, outVars, audioVars, histVars, extVars>>
\* The player and everything about it.
playerVars ==
  <<ctlVars, stop, sinkVars, outVars, audioVars, histVars, hostVars, obsVars, lockVars,
    decVars, callVars, pctx, uiVars>>

\* ret: the call, its result, and for use_device the stream the call opened
\* (0: none).
Pending(op) == [op |-> op, res |-> "pending", stream |-> 0]
Result(op, res) == [op |-> op, res |-> res, stream |-> 0]

\* The queue handle held by Rodio.queue_rx.
QueueRx == 1

\* Sessions in the sink queue that have not ended.
LiveSessions ==
  {queues[h].id : h \in {k \in DOMAIN queues : IsLive(queues[k])}}
    \cup {next_sounds[i].id : i \in DOMAIN next_sounds}

\* Rodio::new_idle
NewIdle ==
  /\ pc = "idle"
  /\ ret = Result("new_idle", "Ok")
  /\ playSrc = NoSource
  /\ rx = 0
  /\ udArg = NoDevice
  /\ udStream = 0
  /\ stop = FALSE
  /\ active_out = NoOutput
  /\ paused = FALSE
  /\ volume = F32One
  /\ count = 0
  /\ sleepRx = 0
  /\ next_sounds = <<>>
  /\ signalled = {}
  /\ queues = <<NoSource>>
  /\ streams = <<>>
  /\ apc = "idle"
  /\ puller = 0
  /\ nplays = 0
  /\ delivered = <<>>
  /\ stopTargets = {}
  /\ killed = {}
  /\ sinceStop = -1
  /\ aoAtCall = NoOutput
  /\ lastVolIn = {}

\* The host the playback specifications run on: output devices d1 and d2,
\* d1 the default.
StdHost ==
  /\ hostOut = <<"d1", "d2">>
  /\ hostDef = HostDefault

\* The observers on a player just built by new_idle.
NoCall == [arg |-> NoDevice, res |-> "none", stream |-> 0]

\* No Symphonia source.
NoDecoder ==
  [built |-> FALSE, packets |-> <<>>, next |-> 0, pkt |-> 0, len |-> 0, offset |-> 0,
   spec |-> ""]

\* No play call yet: nothing served.
NoMedia == [http |-> FALSE, probe |-> FALSE, track |-> FALSE, codec |-> FALSE, packets |-> <<>>]

\* No Storage call yet.
NoStation ==
  [id |-> 0, provider |-> "", provider_id |-> "", name |-> "", url |-> "", codec |-> "",
   bitrate |-> 0, tags |-> <<>>, country |-> ""]

NoDbCall == [op |-> "none", arg |-> NoStation, id |-> 0, rows |-> <<>>]

\* Outside the player: a library just opened on an empty database.
AppInit ==
  /\ table = <<>>
  /\ lib = <<>>
  /\ dbRet = NoDbCall
  /\ filter = [order_by |-> <<>>, limit |-> <<>>, offset |-> <<>>]
  /\ url = [path |-> "", query |-> ""]
  /\ resp = <<>>
  /\ stations = <<>>
  /\ apiPc = "idle"
  /\ opt = [log_filepath |-> <<>>, db_filepath |-> <<>>]
  /\ startup = [pc |-> "parse", log |-> "", db |-> ""]
  /\ pctx = [playSrc |-> NoSource, rx |-> 0]
  /\ volStep = [op |-> "none", from |-> 0, overflow |-> FALSE]
  /\ app = [pc |-> "none", arg |-> <<>>, device |-> <<>>, playing |-> <<>>,
            active_station |-> <<>>, ret |-> "none", op |-> "none", url |-> <<>>]
  /\ tbl = [kind |-> "none", build |-> "none", len |-> 0, stateful |-> FALSE,
            selected |-> <<>>, op |-> "none", out |-> "none"]

ObsInit ==
  /\ ctor = "new_idle"
  /\ everBound = FALSE
  /\ running = 1
  /\ ctx = [pc |-> "idle", ret |-> Result("new_idle", "Ok"), udArg |-> NoDevice,
            udStream |-> 0, aoAtCall |-> NoOutput]
  /\ conc = [order |-> <<>>, calls |-> <<NoCall, NoCall>>, contended |-> FALSE]
  /\ media = NoMedia
  /\ dec = NoDecoder
  /\ emitted = <<>>
  /\ decRet = "none"
  /\ idleStop = FALSE
  /\ toggles = <<>>
  /\ AppInit

Init == NewIdle /\ StdHost /\ ObsInit

\* --------------------------------------------------------------- play

\* Player::play is called.
PlayCall(limit) ==
  /\ pc = "idle"
  /\ nplays < limit
  /\ pc' = "play_from_http"
  /\ ret' = Pending("play")
  /\ UNCHANGED <<playSrc, rx, udArg, udStream, stop, sinkVars, outVars, audioVars, histVars>>

\* Symphonia::from_http fails: `?` returns the error before anything else ran.
PlayFromHttpErrAfterDrain ==
  /\ pc = "play_from_http"
  /\ pc' = "idle"
  /\ ret' = Result("play", "Err")
  /\ stop' = TRUE
  /\ UNCHANGED <<playSrc, rx, udArg, udStream, sinkVars, outVars, audioVars, histVars>>

PlayFromHttpErr ==
  /\ pc = "play_from_http"
  /\ pc' = "idle"
  /\ ret' = Result("play", "Err")
  /\ UNCHANGED <<playSrc, rx, udArg, udStream, stop, sinkVars, outVars, audioVars, histVars>>

\* Symphonia::from_http succeeds; the source is wrapped (stoppable, periodic
\* access).  len is the number of samples the stream will yield.
PlayFromHttpOk(len) ==
  /\ pc = "play_from_http"
  /\ playSrc' = NewSource(nplays + 1, len)
  /\ nplays' = nplays + 1
  /\ pc' = "play_len"
  /\ UNCHANGED <<ret, rx, udArg, udStream, stop, sinkVars, outVars, audioVars,
                 delivered, stopTargets, killed, sinceStop, aoAtCall, lastVolIn>>

\* The position play moves to after constructing the source when the drain
\* loop is left out.
AfterLenNoDrain(n) == "play_clear"
\* while self.sink.len() > 0
AfterLen(n) == IF n > 0 THEN "play_raise" ELSE "play_clear"

PlayLen ==
  /\ pc = "play_len"
  /\ pc' = AfterLen(count)
  /\ UNCHANGED <<ret, playSrc, rx, udArg, udStream, stop, sinkVars, outVars, audioVars, histVars>>

\* self.controls.stop.store(true)
PlayRaise ==
  /\ pc = "play_raise"
  /\ stop' = TRUE
  /\ stopTargets' = stopTargets \cup LiveSessions
  /\ pc' = "play_sleep"
  /\ UNCHANGED <<ret, playSrc, rx, udArg, udStream, sinkVars, outVars, audioVars,
                 nplays, delivered, killed, sinceStop, aoAtCall, lastVolIn>>

\* self.sink.sleep_until_end(): takes the stored receiver; with none stored it
\* returns at once.
PlaySleep ==
  /\ pc = "play_sleep"
  /\ rx' = sleepRx
  /\ sleepRx' = 0
  /\ pc' = IF sleepRx = 0 THEN "play_len" ELSE "play_recv"
  /\ UNCHANGED <<ret, playSrc, udArg, udStream, stop, paused, volume, count,
                 next_sounds, signalled, outVars, audioVars, histVars>>

\* ... and blocks until the source it belongs to has ended.
PlayRecv ==
  /\ pc = "play_recv"
  /\ rx \in signalled
  /\ rx' = 0
  /\ pc' = "play_len"
  /\ UNCHANGED <<ret, playSrc, udArg, udStream, stop, sinkVars, outVars, audioVars, histVars>>

\* The flag after the drain loop when line 103 is left out.
ClearedStopKeep(flag) == flag
\* self.controls.stop.store(false)
ClearedStop(flag) == FALSE

PlayClear ==
  /\ pc = "play_clear"
  /\ stop' = ClearedStop(stop)
  /\ pc' = "play_append"
  /\ UNCHANGED <<ret, playSrc, rx, udArg, udStream, sinkVars, outVars, audioVars, histVars>>

\* self.sink.append(source); Ok(())
PlayAppend ==
  /\ pc = "play_append"
  /\ count' = count + 1
  /\ next_sounds' = Append(next_sounds, playSrc)
  /\ sleepRx' = playSrc.id
  /\ playSrc' = NoSource
  /\ pc' = "idle"
  /\ ret' = Result("play", "Ok")
  /\ UNCHANGED <<rx, udArg, udStream, stop, paused, volume, signalled, outVars,
                 audioVars, histVars>>

\* --------------------------------------------- stop, pause, resume, volume

\* Player::stop
Stop ==
  /\ pc = "idle"
  /\ stop' = TRUE
  /\ stopTargets' = stopTargets \cup LiveSessions
  /\ sinceStop' = IF LiveSessions # {} /\ sinceStop = -1 THEN 0 ELSE sinceStop
  /\ UNCHANGED <<pc, ret, playSrc, rx, udArg, udStream, sinkVars, outVars, audioVars,
                 nplays, delivered, killed, aoAtCall, lastVolIn>>

\* pause as a toggle of the sink's flag.
PauseToggle ==
  /\ pc = "idle"
  /\ paused' = ~paused
  /\ UNCHANGED <<pc, ret, playSrc, rx, udArg, udStream, stop, volume, count, sleepRx,
                 next_sounds, signalled, outVars, audioVars, histVars>>

\* Player::pause
Pause ==
  /\ pc = "idle"
  /\ paused' = TRUE
  /\ UNCHANGED <<pc, ret, playSrc, rx, udArg, udStream, stop, volume, count, sleepRx,
                 next_sounds, signalled, outVars, audioVars, histVars>>

\* Player::resume
Resume ==
  /\ pc = "idle"
  /\ paused' = FALSE
  /\ UNCHANGED <<pc, ret, playSrc, rx, udArg, udStream, stop, volume, count, sleepRx,
                 next_sounds, signalled, outVars, audioVars, histVars>>

\* Player::set_volume
SetVolume(v) ==
  /\ pc = "idle"
  /\ volume' = SetVolumeValue(v)
  /\ lastVolIn' = {v}
  /\ UNCHANGED <<pc, ret, playSrc, rx, udArg, udStream, stop, paused, count, sleepRx,
                 next_sounds, signalled, outVars, audioVars,
                 nplays, delivered, stopTargets, killed, sinceStop, aoAtCall>>

\* ---------------------------------------------------------------- devices

\* Rodio::devices: one entry per device of host.output_devices(), is_active
\* by comparing the identifier with ActiveOutput's device, is_default by
\* comparing it with the host's default output device.
DevicesVec(ao) ==
  [i \in DOMAIN hostOut |->
     [id |-> hostOut[i],
      is_active |-> (ao.device # NoDevice /\ ao.device.id = hostOut[i]),
      is_default |-> (hostDef # "" /\ hostOut[i] = hostDef)]]

\* The entries of the list, as a set.
Devices(ao) == {DevicesVec(ao)[i] : i \in DOMAIN hostOut}

\* ret after a devices() call: the call, its result and the list returned.
Listed(res, list) == [op |-> "devices", res |-> res, stream |-> 0, list |-> list]

\* The calls of the control thread need a player: none exists after default()
\* returned an error, and none is handed out while default() runs.
Built == ctor \in {"new_idle", "default"}

\* What devices() does to ActiveOutput under its lock.
DevicesLockedTake(ao) == NoOutput
DevicesLocked(ao) == ao

\* Player::devices returns Ok(result).
DevicesCall ==
  /\ pc = "idle"
  /\ Built
  /\ ret' = Listed("Ok", DevicesVec(active_out))
  /\ active_out' = DevicesLocked(active_out)
  /\ UNCHANGED <<pc, playSrc, rx, udArg, udStream, stop, sinkVars, streams, audioVars,
                 histVars, extVars>>

\* Player::devices returns an error: host.output_devices() or a device's
\* name() failed (`?`).
DevicesErr ==
  /\ pc = "idle"
  /\ Built
  /\ ret' = Listed("Err", <<>>)
  /\ active_out' = DevicesLocked(active_out)
  /\ UNCHANGED <<pc, playSrc, rx, udArg, udStream, stop, sinkVars, streams, audioVars,
                 histVars, extVars>>

\* ------------------------------------------------------------- use_device

\* use_device returns res: its locals go, the lock is released.
UseDeviceReturn(res) ==
  /\ pc' = "idle"
  /\ ret' = [op |-> "use_device", res |-> res, stream |-> udStream]
  /\ udArg' = NoDevice
  /\ udStream' = 0
  /\ aoAtCall' = NoOutput

udFrame == <<nplays, delivered, stopTargets, killed, sinceStop, lastVolIn>>

\* Positions of the control thread inside use_device.
UdPcs == {"ud_lock", "ud_resolve", "ud_open", "ud_assign", "ud_bind"}

\* Player::use_device is called: self.active_out.lock()
UseDeviceCall(d) ==
  /\ pc = "idle"
  /\ pc' = "ud_lock"
  /\ udArg' = d
  /\ udStream' = 0
  /\ aoAtCall' = active_out
  /\ ret' = Pending("use_device")
  /\ UNCHANGED <<playSrc, rx, stop, sinkVars, outVars, audioVars,
                 nplays, delivered, stopTargets, killed, sinceStop, lastVolIn>>

\* if Some(device) == active_out.device.as_ref() { return Ok(()) }
UseDeviceCheck ==
  /\ pc = "ud_lock"
  /\ IF active_out.device # NoDevice /\ DeviceEq(udArg, active_out.device)
       THEN UseDeviceReturn("Ok")
       ELSE pc' = "ud_resolve" /\ UNCHANGED <<ret, udArg, udStream, aoAtCall>>
  /\ UNCHANGED <<playSrc, rx, stop, sinkVars, outVars, audioVars, udFrame>>

\* cpal::default_host().devices()
Resolvable == {hostOut[i] : i \in DOMAIN hostOut} \cup HostInputs

\* The loop over the enumeration: the device whose name is device.id, or
\* Err("device not found").
UseDeviceResolve ==
  /\ pc = "ud_resolve"
  /\ IF udArg.id \in Resolvable
       THEN pc' = "ud_open" /\ UNCHANGED <<ret, udArg, udStream, aoAtCall>>
       ELSE UseDeviceReturn("device not found")
  /\ UNCHANGED <<playSrc, rx, stop, sinkVars, outVars, audioVars, udFrame>>

\* OutputStream::try_from_device fails (`?`): always on a device without an
\* output configuration, possibly on any device.
UseDeviceOpenErr ==
  /\ pc = "ud_open"
  /\ UseDeviceReturn("stream error")
  /\ UNCHANGED <<playSrc, rx, stop, sinkVars, outVars, audioVars, udFrame>>

\* OutputStream::try_from_device succeeds: a new stream, bound to nothing yet.
UseDeviceOpenOk ==
  /\ pc = "ud_open"
  /\ udArg.id \in {hostOut[i] : i \in DOMAIN hostOut}
  /\ Len(streams) < MaxStreams
  /\ streams' = Append(streams, [dev |-> udArg.id, alive |-> TRUE, src |-> 0, pulled |-> FALSE])
  /\ udStream' = Len(streams) + 1
  /\ pc' = "ud_assign"
  /\ UNCHANGED <<ret, playSrc, rx, udArg, stop, sinkVars, active_out, audioVars, histVars>>

\* The streams after the assignment when the stream held before is kept open.
DropStreamKeep(ss, old) == ss

\* Assigning active_out.stream drops the stream held before: its callback
\* ends (the drop waits for a running callback) and its mixer's sources go.
DropStream(ss, old) ==
  [i \in DOMAIN ss |->
     IF i = old THEN [dev |-> "", alive |-> FALSE, src |-> 0, pulled |-> ss[i].pulled]
                ELSE ss[i]]

\* The stop flag after the switch when the switch also requests a stop.
StopAfterAssignRaised(flag) == TRUE
StopAfterAssign(flag) == flag

\* The assignment when binding a device starts from a new sink: pause state
\* and volume back at their defaults.
UseDeviceAssignNewSink ==
  /\ pc = "ud_assign"
  /\ puller # active_out.stream \/ puller = 0
  /\ streams' = DropStream(streams, active_out.stream)
  /\ active_out' = [device |-> udArg, stream |-> udStream]
  /\ paused' = FALSE
  /\ volume' = F32One
  /\ pc' = "ud_bind"
  /\ UNCHANGED <<ret, playSrc, rx, udArg, udStream, stop, count, sleepRx, next_sounds,
                 signalled, audioVars, histVars>>

\* active_out.stream = Some(stream); active_out.device = Some(device.clone())
UseDeviceAssign ==
  /\ pc = "ud_assign"
  /\ puller # active_out.stream \/ puller = 0
  /\ streams' = DropStream(streams, active_out.stream)
  /\ active_out' = [device |-> udArg, stream |-> udStream]
  /\ stop' = StopAfterAssign(stop)
  /\ aoAtCall' = aoAtCall
  /\ pc' = "ud_bind"
  /\ UNCHANGED <<ret, playSrc, rx, udArg, udStream, sinkVars, audioVars,
                 nplays, delivered, stopTargets, killed, sinceStop, lastVolIn>>

\* self.queue_rx.clone() when the clone copies the queue output.
SharedSourcesQueueCloneDeep(qs, h) ==
  [qs |-> Append(qs, qs[h]), h |-> Len(qs) + 1]
\* self.queue_rx.clone(): #[derive(Clone)] on a wrapper of an Arc, so the
\* clone is another handle to the same queue output.
SharedSourcesQueueClone(qs, h) ==
  [qs |-> qs, h |-> h]

\* handler.play_raw(self.queue_rx.clone())?  succeeds: the stream's mixer now
\* pulls from the queue.
UseDeviceBindOk ==
  /\ pc = "ud_bind"
  /\ LET c == SharedSourcesQueueClone(queues, QueueRx)
     IN  /\ queues' = c.qs
         /\ streams' = [streams EXCEPT ![udStream].src = c.h]
  /\ UseDeviceReturn("Ok")
  /\ UNCHANGED <<playSrc, rx, stop, sinkVars, active_out, apc, puller, udFrame>>

\* handler.play_raw(...)? fails: the error is returned.
UseDeviceBindErr ==
  /\ pc = "ud_bind"
  /\ UseDeviceReturn("play error")
  /\ UNCHANGED <<playSrc, rx, stop, sinkVars, outVars, audioVars, udFrame>>

\* ---------------------------------------------------------- playback path

\* Streams whose callback runs and whose mixer holds the queue.
Pulling == {s \in DOMAIN streams : streams[s].alive /\ streams[s].src # 0}

\* The queue output the pulling stream reads.
PullHandle == streams[puller].src

\* The queue output is playing nothing (silence) and a source was appended:
\* it becomes the current source.
PullPick(s) ==
  /\ apc = "idle"
  /\ s \in Pulling
  /\ queues[streams[s].src] = NoSource
  /\ next_sounds # <<>>
  /\ queues' = [queues EXCEPT ![streams[s].src] = Head(next_sounds)]
  /\ next_sounds' = Tail(next_sounds)
  /\ UNCHANGED <<ctlVars, stop, paused, volume, count, sleepRx, signalled, outVars,
                 apc, puller, histVars>>

\* What the wrapper's check does to the flag it observed set when it does not
\* reset it.
ObservedStopKeep(flag) == flag
\* controls.stop.store(false)
ObservedStop(flag) == FALSE

\* Whether the wrapper ends its source on observing the flag, were it to
\* ignore the flag.
EndsOnStopNever(flag) == FALSE
\* if controls.stop.load(SeqCst) { src.stop(); ... }
EndsOnStop(flag) == flag

\* What asking the wrapped source for its next sample does: none when it was
\* stopped or its stream has ended (the Done wrapper is next), else the sample
\* at the read position is delivered to the pulling stream s.
NextSample(s, h, cur) ==
  IF cur.stopped \/ cur.pos = cur.len
    THEN /\ queues' = [queues EXCEPT ![h] = cur]
         /\ apc' = "done"
         /\ puller' = s
         /\ UNCHANGED <<delivered, sinceStop, streams>>
    ELSE /\ queues' = [queues EXCEPT ![h] = [cur EXCEPT !.pos = cur.pos + 1]]
         /\ delivered' = Append(delivered, <<cur.id, cur.pos>>)
         /\ streams' = [streams EXCEPT ![s].pulled = TRUE]
         /\ sinceStop' = IF sinceStop >= 0 THEN sinceStop + 1 ELSE sinceStop
         /\ apc' = "idle"
         /\ puller' = 0

\* A pull reaches the session's source (the sink is not paused) and the
\* period has not elapsed: the periodic access counts the sample and asks the
\* source for it.
PullSample(s) ==
  /\ apc = "idle"
  /\ s \in Pulling
  /\ ~paused
  /\ LET h == streams[s].src
         cur == queues[h]
     IN  /\ IsLive(cur)
         /\ cur.until > 1
         /\ NextSample(s, h, [cur EXCEPT !.until = cur.until - 1])
  /\ UNCHANGED <<ctlVars, stop, sinkVars, active_out,
                 nplays, stopTargets, killed, aoAtCall, lastVolIn>>

\* A pull reaches the session's source and the period has elapsed: the
\* periodic access runs the check, which loads the stop flag and, finding it
\* set, stops the source.
PullCheck(s) ==
  /\ apc = "idle"
  /\ s \in Pulling
  /\ ~paused
  /\ LET h == streams[s].src
         cur == queues[h]
         hit == EndsOnStop(stop)
     IN  /\ IsLive(cur)
         /\ cur.until = 1
         /\ queues' = [queues EXCEPT ![h] =
                         [cur EXCEPT !.until = AccessPeriodSamples,
                                     !.stopped = cur.stopped \/ hit]]
         /\ killed' = IF hit THEN killed \cup {cur.id} ELSE killed
         /\ apc' = IF hit THEN "clear" ELSE "next"
  /\ puller' = s
  /\ UNCHANGED <<ctlVars, stop, sinkVars, outVars,
                 nplays, delivered, stopTargets, sinceStop, aoAtCall, lastVolIn>>

\* The check resets the flag it observed.
PullClear ==
  /\ apc = "clear"
  /\ stop' = ObservedStop(stop)
  /\ apc' = "next"
  /\ UNCHANGED <<ctlVars, sinkVars, outVars, queues, puller, histVars>>

\* After the check the source is asked for its next sample.
PullNext ==
  /\ apc = "next"
  /\ NextSample(puller, PullHandle, queues[PullHandle])
  /\ UNCHANGED <<ctlVars, stop, sinkVars, active_out,
                 nplays, stopTargets, killed, aoAtCall, lastVolIn>>

\* The source returned none: the sink's Done wrapper decrements the count.
PullDone ==
  /\ apc = "done"
  /\ count' = count - 1
  /\ queues' = [queues EXCEPT ![PullHandle].done = TRUE]
  /\ sinceStop' = -1
  /\ apc' = "gonext"
  /\ UNCHANGED <<ctlVars, stop, paused, volume, sleepRx, next_sounds, signalled, outVars,
                 puller, nplays, delivered, stopTargets, killed, aoAtCall, lastVolIn>>

\* The queue output moves on: it sends the ended source's signal and takes
\* the next appended source, or plays silence.
PullGoNext ==
  /\ apc = "gonext"
  /\ signalled' = signalled \cup {queues[PullHandle].id}
  /\ IF next_sounds # <<>>
       THEN /\ queues' = [queues EXCEPT ![PullHandle] = Head(next_sounds)]
            /\ next_sounds' = Tail(next_sounds)
       ELSE /\ queues' = [queues EXCEPT ![PullHandle] = NoSource]
            /\ next_sounds' = next_sounds
  /\ apc' = "idle"
  /\ puller' = 0
  /\ UNCHANGED <<ctlVars, stop, paused, volume, count, sleepRx, outVars, histVars>>

\* --------------------------------------------------------- specifications

\* Every operation, from a player built by new_idle.
Next ==
  \/ PlayCall(MaxPlays) /\ UNCHANGED extVars
  \/ PlayFromHttpErr /\ UNCHANGED extVars
  \/ \E len \in 1 .. MaxSamples : PlayFromHttpOk(len) /\ UNCHANGED extVars
  \/ PlayLen /\ UNCHANGED extVars
  \/ PlayRaise /\ UNCHANGED extVars
  \/ PlaySleep /\ UNCHANGED extVars
  \/ PlayRecv /\ UNCHANGED extVars
  \/ PlayClear /\ UNCHANGED extVars
  \/ PlayAppend /\ UNCHANGED extVars
  \/ Stop /\ UNCHANGED extVars
  \/ Pause /\ UNCHANGED extVars
  \/ Resume /\ UNCHANGED extVars
  \/ \E v \in VolumeInputs : SetVolume(v) /\ UNCHANGED extVars
  \/ \E d \in DeviceArgs : UseDeviceCall(d) /\ UNCHANGED extVars
  \/ UseDeviceCheck /\ UNCHANGED extVars
  \/ UseDeviceResolve /\ UNCHANGED extVars
  \/ UseDeviceOpenErr /\ UNCHANGED extVars
  \/ UseDeviceOpenOk /\ UNCHANGED extVars
  \/ UseDeviceAssign /\ UNCHANGED extVars
  \/ UseDeviceBindOk /\ UNCHANGED extVars
  \/ UseDeviceBindErr /\ UNCHANGED extVars
  \/ \E s \in DOMAIN streams : PullPick(s) /\ UNCHANGED extVars
  \/ \E s \in DOMAIN streams : PullSample(s) /\ UNCHANGED extVars
  \/ \E s \in DOMAIN streams : PullCheck(s) /\ UNCHANGED extVars
  \/ PullClear /\ UNCHANGED extVars
  \/ PullNext /\ UNCHANGED extVars
  \/ PullDone /\ UNCHANGED extVars
  \/ PullGoNext /\ UNCHANGED extVars

Spec == Init /\ [][Next]_vars

\* Rodio::default, as main builds the player: new_idle, then use_device on
\* the entry of devices() that is the host's default (listed while nothing
\* was active).
InitDefault ==
  /\ pc = "idle"
  /\ ret = [op |-> "use_device", res |-> "Ok", stream |-> 1]
  /\ playSrc = NoSource
  /\ rx = 0
  /\ udArg = NoDevice
  /\ udStream = 0
  /\ stop = FALSE
  /\ active_out =
       [device |-> [id |-> HostDefault, is_active |-> FALSE, is_default |-> TRUE],
        stream |-> 1]
  /\ paused = FALSE
  /\ volume = F32One
  /\ count = 0
  /\ sleepRx = 0
  /\ next_sounds = <<>>
  /\ signalled = {}
  /\ queues = <<NoSource>>
  /\ streams = <<[dev |-> HostDefault, alive |-> TRUE, src |-> QueueRx, pulled |-> FALSE]>>
  /\ apc = "idle"
  /\ puller = 0
  /\ nplays = 0
  /\ delivered = <<>>
  /\ stopTargets = {}
  /\ killed = {}
  /\ sinceStop = -1
  /\ aoAtCall = NoOutput
  /\ lastVolIn = {}
  /\ StdHost
  /\ ctor = "default"
  /\ everBound = TRUE
  /\ running = 1
  /\ ctx = [pc |-> "idle", ret |-> Result("new_idle", "Ok"), udArg |-> NoDevice,
            udStream |-> 0, aoAtCall |-> NoOutput]
  /\ conc = [order |-> <<>>, calls |-> <<NoCall, NoCall>>, contended |-> FALSE]
  /\ media = NoMedia
  /\ dec = NoDecoder
  /\ emitted = <<>>
  /\ decRet = "none"
  /\ idleStop = FALSE
  /\ toggles = <<>>
  /\ AppInit

\* Playback on the default device: the calls of the control thread that act
\* on sessions and on the sink, and the playback path.
NextPlay ==
  \/ PlayCall(MaxPlays) /\ UNCHANGED extVars
  \/ PlayFromHttpErr /\ UNCHANGED extVars
  \/ \E len \in 1 .. MaxSamples : PlayFromHttpOk(len) /\ UNCHANGED extVars
  \/ PlayLen /\ UNCHANGED extVars
  \/ PlayRaise /\ UNCHANGED extVars
  \/ PlaySleep /\ UNCHANGED extVars
  \/ PlayRecv /\ UNCHANGED extVars
  \/ PlayClear /\ UNCHANGED extVars
  \/ PlayAppend /\ UNCHANGED extVars
  \/ Stop /\ UNCHANGED extVars
  \/ Pause /\ UNCHANGED extVars
  \/ Resume /\ UNCHANGED extVars
  \/ \E v \in VolumeInputs : SetVolume(v) /\ UNCHANGED extVars
  \/ \E s \in DOMAIN streams : PullPick(s) /\ UNCHANGED extVars
  \/ \E s \in DOMAIN streams : PullSample(s) /\ UNCHANGED extVars
  \/ \E s \in DOMAIN streams : PullCheck(s) /\ UNCHANGED extVars
  \/ PullClear /\ UNCHANGED extVars
  \/ PullNext /\ UNCHANGED extVars
  \/ PullDone /\ UNCHANGED extVars
  \/ PullGoNext /\ UNCHANGED extVars

SpecPlay == InitDefault /\ [][NextPlay]_vars

\* Device switching under one session, from a player built by new_idle: a
\* first play (nothing to drain), stop, pause and resume, every step of
\* use_device, and the playback path.
NextSwitch ==
  \/ PlayCall(MaxSwitchPlays) /\ UNCHANGED extVars
  \/ PlayFromHttpErr /\ UNCHANGED extVars
  \/ \E len \in 1 .. MaxSwitchSamples : PlayFromHttpOk(len) /\ UNCHANGED extVars
  \/ PlayLen /\ UNCHANGED extVars
  \/ PlayClear /\ UNCHANGED extVars
  \/ PlayAppend /\ UNCHANGED extVars
  \/ Stop /\ UNCHANGED extVars
  \/ Pause /\ UNCHANGED extVars
  \/ Resume /\ UNCHANGED extVars
  \/ \E d \in DeviceArgs : UseDeviceCall(d) /\ UNCHANGED extVars
  \/ UseDeviceCheck /\ UNCHANGED extVars
  \/ UseDeviceResolve /\ UNCHANGED extVars
  \/ UseDeviceOpenErr /\ UNCHANGED extVars
  \/ UseDeviceOpenOk /\ UNCHANGED extVars
  \/ UseDeviceAssign /\ UNCHANGED extVars
  \/ UseDeviceBindOk /\ UNCHANGED extVars
  \/ UseDeviceBindErr /\ UNCHANGED extVars
  \/ \E s \in DOMAIN streams : PullPick(s) /\ UNCHANGED extVars
  \/ \E s \in DOMAIN streams : PullSample(s) /\ UNCHANGED extVars
  \/ \E s \in DOMAIN streams : PullCheck(s) /\ UNCHANGED extVars
  \/ PullClear /\ UNCHANGED extVars
  \/ PullNext /\ UNCHANGED extVars
  \/ PullDone /\ UNCHANGED extVars
  \/ PullGoNext /\ UNCHANGED extVars

SpecSwitch == Init /\ [][NextSwitch]_vars

\* The volume path alone, over every i8 input.
NextVolume ==
  \/ \E v \in I8 : SetVolume(v) /\ UNCHANGED extVars
  \/ Pause /\ UNCHANGED extVars
  \/ Resume /\ UNCHANGED extVars
  \/ Stop /\ UNCHANGED extVars

SpecVolume == Init /\ [][NextVolume]_vars

\* ---------------------------------------------------------------- default

\* .find(|d| d.is_default)
FindAny(d) == TRUE
FindDefault(d) == d.is_default

\* Rodio::default on the player new_idle just built: devices()?, the first
\* entry marked default (or the error "can't find default device"), and the
\* call of use_device on that entry.
DefaultFind ==
  /\ pc = "idle"
  /\ ctor = "new_idle"
  /\ ret = Result("new_idle", "Ok")
  /\ LET list == DevicesVec(active_out)
         found == {i \in DOMAIN list : FindDefault(list[i])}
     IN  IF found = {}
           THEN /\ ret' = Result("default", "can't find default device")
                /\ ctor' = "failed"
                /\ UNCHANGED <<pc, udArg, udStream, aoAtCall>>
           ELSE /\ ret' = Pending("use_device")
                /\ ctor' = "default_run"
                /\ pc' = "ud_lock"
                /\ udArg' = list[CHOOSE i \in found : \A j \in found : i <= j]
                /\ udStream' = 0
                /\ aoAtCall' = active_out
  /\ UNCHANGED <<playSrc, rx, stop, sinkVars, outVars, audioVars,
                 nplays, delivered, stopTargets, killed, sinceStop, lastVolIn,
                 hostVars, everBound, lockVars, tailVars>>

\* Rodio::default when devices() fails (`?`).
DefaultDevicesErr ==
  /\ pc = "idle"
  /\ ctor = "new_idle"
  /\ ret = Result("new_idle", "Ok")
  /\ ret' = Result("default", "Err")
  /\ ctor' = "failed"
  /\ UNCHANGED <<pc, playSrc, rx, udArg, udStream, stop, sinkVars, outVars, audioVars,
                 histVars, hostVars, everBound, lockVars, tailVars>>

\* What a returning use_device step tells the observers: a call returned Ok;
\* default() returns what its use_device call returns.
ObserveReturn ==
  /\ everBound' = (everBound \/ (pc' = "idle" /\ ret'.res = "Ok"))
  /\ ctor' = IF ctor = "default_run" /\ pc' = "idle"
               THEN (IF ret'.res = "Ok" THEN "default" ELSE "failed")
               ELSE ctor

\* Hosts: every list of at most MaxHostDevices output devices named d1 or d2
\* (two devices may carry one name), with any of the names, or none, as the
\* default output device.
InitHost ==
  /\ NewIdle
  /\ ObsInit
  /\ hostOut \in UNION {[1 .. n -> HostOutputs] : n \in 0 .. MaxHostDevices}
  /\ hostDef \in HostOutputs \cup {""}

\* Enumeration and binding on any host: default(), devices(), every step of
\* use_device, and the flag calls.
NextHost ==
  \/ DefaultFind
  \/ DefaultDevicesErr
  \/ DevicesCall
  \/ DevicesErr
  \/ \E d \in DeviceArgs : Built /\ UseDeviceCall(d) /\ UNCHANGED extVars
  \/ UseDeviceCheck /\ ObserveReturn /\ UNCHANGED <<hostVars, lockVars, tailVars>>
  \/ UseDeviceResolve /\ ObserveReturn /\ UNCHANGED <<hostVars, lockVars, tailVars>>
  \/ UseDeviceOpenErr /\ ObserveReturn /\ UNCHANGED <<hostVars, lockVars, tailVars>>
  \/ UseDeviceOpenOk /\ UNCHANGED extVars
  \/ UseDeviceAssign /\ UNCHANGED extVars
  \/ UseDeviceBindOk /\ ObserveReturn /\ UNCHANGED <<hostVars, lockVars, tailVars>>
  \/ UseDeviceBindErr /\ ObserveReturn /\ UNCHANGED <<hostVars, lockVars, tailVars>>
  \/ Built /\ Stop /\ UNCHANGED extVars
  \/ Built /\ Pause /\ UNCHANGED extVars
  \/ Built /\ Resume /\ UNCHANGED extVars

SpecHost == InitHost /\ [][NextHost]_vars

\* ------------------------------------------------------------ two callers

\* use_device called from two threads. pc, ret, udArg, udStream and aoAtCall
\* are those of the thread running; ctx holds the other thread's.

\* The scheduler runs the other thread.
Switch ==
  /\ running' = 3 - running
  /\ pc' = ctx.pc
  /\ ret' = ctx.ret
  /\ udArg' = ctx.udArg
  /\ udStream' = ctx.udStream
  /\ aoAtCall' = ctx.aoAtCall
  /\ ctx' = [pc |-> pc, ret |-> ret, udArg |-> udArg, udStream |-> udStream,
             aoAtCall |-> aoAtCall]
  /\ UNCHANGED <<playSrc, rx, stop, sinkVars, outVars, audioVars,
                 nplays, delivered, stopTargets, killed, sinceStop, lastVolIn,
                 hostVars, obsVars, conc, tailVars>>

\* self.active_out.lock() returns only while no other thread holds the
\* guard; use_device holds it from line 168 to its return.
LockFreeAlways == TRUE
LockFree == ctx.pc \notin UdPcs

\* A thread calls use_device (once) and reaches the lock.
UseDeviceEnter(d) ==
  /\ pc = "idle"
  /\ conc.calls[running] = NoCall
  /\ pc' = "ud_wait"
  /\ udArg' = d
  /\ ret' = Pending("use_device")
  /\ conc' = [conc EXCEPT !.calls[running].arg = d,
                          !.contended = conc.contended \/ ~LockFree]
  /\ UNCHANGED <<playSrc, rx, udStream, stop, sinkVars, outVars, audioVars, histVars,
                 hostVars, obsVars, running, ctx, tailVars>>

\* The thread acquires the lock.
UseDeviceLock ==
  /\ pc = "ud_wait"
  /\ LockFree
  /\ pc' = "ud_lock"
  /\ udStream' = 0
  /\ aoAtCall' = active_out
  /\ conc' = [conc EXCEPT !.order = Append(conc.order, running)]
  /\ UNCHANGED <<ret, playSrc, rx, udArg, stop, sinkVars, outVars, audioVars,
                 nplays, delivered, stopTargets, killed, sinceStop, lastVolIn,
                 hostVars, obsVars, running, ctx, tailVars>>

\* A returning step hands the thread its result.
ObserveCaller ==
  conc' = IF pc' = "idle"
            THEN [conc EXCEPT !.calls[running].res = ret'.res,
                              !.calls[running].stream = ret'.stream]
            ELSE conc

NextLock ==
  \/ Switch
  \/ \E d \in DeviceArgs : UseDeviceEnter(d)
  \/ UseDeviceLock
  \/ UseDeviceCheck /\ ObserveCaller /\ UNCHANGED <<hostVars, obsVars, running, ctx, tailVars>>
  \/ UseDeviceResolve /\ ObserveCaller /\ UNCHANGED <<hostVars, obsVars, running, ctx, tailVars>>
  \/ UseDeviceOpenErr /\ ObserveCaller /\ UNCHANGED <<hostVars, obsVars, running, ctx, tailVars>>
  \/ UseDeviceOpenOk /\ UNCHANGED extVars
  \/ UseDeviceAssign /\ UNCHANGED extVars
  \/ UseDeviceBindOk /\ ObserveCaller /\ UNCHANGED <<hostVars, obsVars, running, ctx, tailVars>>
  \/ UseDeviceBindErr /\ ObserveCaller /\ UNCHANGED <<hostVars, obsVars, running, ctx, tailVars>>

SpecLock == Init /\ [][NextLock]_vars

\* ------------------------------------------------------- the decoder source

\* The signal specs (channels, rate) a packet can decode to.
SignalSpecs == {"mono", "stereo"}

\* What decoder.decode makes of a packet: n interleaved samples of a signal
\* spec, or an error.
Packets ==
  {[ok |-> TRUE, n |-> k, spec |-> sp] : k \in 0 .. MaxPacketLen, sp \in SignalSpecs}
    \cup {[ok |-> FALSE, n |-> 0, spec |-> ""]}

\* What a URL serves: whether the request gets a response, the format is
\* probed, a default track exists and a decoder can be made for it, and the
\* packets reader.next_packet() yields before it fails (end of stream, IO
\* error).
Medias ==
  [http : BOOLEAN, probe : BOOLEAN, track : BOOLEAN, codec : BOOLEAN,
   packets : UNION {[1 .. n -> Packets] : n \in 0 .. MaxPackets}]

\* from_reader returning Ok once the decoder is made, reading no packet.
FromReaderLazy(m) ==
  IF ~m.probe THEN [res |-> "probe error", dec |-> NoDecoder]
  ELSE IF ~m.track THEN [res |-> "track must by found", dec |-> NoDecoder]
  ELSE IF ~m.codec THEN [res |-> "codec error", dec |-> NoDecoder]
  ELSE [res |-> "Ok",
        dec |-> [built |-> TRUE, packets |-> m.packets, next |-> 1, pkt |-> 0,
                 len |-> 0, offset |-> 0, spec |-> ""]]
\* Symphonia::from_reader: probe, default track, decoder, first packet, its
\* decoding; each failure returns (`?`).
FromReader(m) ==
  IF ~m.probe THEN [res |-> "probe error", dec |-> NoDecoder]
  ELSE IF ~m.track THEN [res |-> "track must by found", dec |-> NoDecoder]
  ELSE IF ~m.codec THEN [res |-> "codec error", dec |-> NoDecoder]
  ELSE IF m.packets = <<>> THEN [res |-> "packet must by found", dec |-> NoDecoder]
  ELSE IF ~m.packets[1].ok THEN [res |-> "decode packet", dec |-> NoDecoder]
  ELSE [res |-> "Ok",
        dec |-> [built |-> TRUE, packets |-> m.packets, next |-> 2, pkt |-> 1,
                 len |-> m.packets[1].n, offset |-> 0, spec |-> m.packets[1].spec]]

\* Symphonia::from_http
FromHttp(m) ==
  IF ~m.http THEN [res |-> "get http response", dec |-> NoDecoder]
  ELSE FromReader(m)

\* Iterator::next: [dec: the source after the pull, out: "Some", "None" or
\* "panic" (samples()[offset] with offset out of bounds), sample].
SymphoniaNext(d) ==
  LET refill == d.offset = d.len
  IN  IF refill /\ d.next > Len(d.packets)
        THEN [dec |-> d, out |-> "None", sample |-> <<0, 0>>]
      ELSE IF refill /\ ~d.packets[d.next].ok
        THEN [dec |-> [d EXCEPT !.next = d.next + 1], out |-> "None", sample |-> <<0, 0>>]
      ELSE LET b == IF refill
                      THEN [d EXCEPT !.next = d.next + 1, !.pkt = d.next,
                                     !.len = d.packets[d.next].n, !.offset = 0]
                      ELSE d
           IN  IF b.offset < b.len
                 THEN [dec |-> [b EXCEPT !.offset = b.offset + 1], out |-> "Some",
                       sample |-> <<b.pkt, b.offset>>]
                 ELSE [dec |-> b, out |-> "panic", sample |-> <<0, 0>>]

\* The channel count and the rate of a signal spec.
SpecChannels(sp) == IF sp = "stereo" THEN 2 ELSE 1

SpecRate(sp) == IF sp = "stereo" THEN 48000 ELSE 44100

\* Source::channels and Source::sample_rate: read from self.spec.
Channels(d) == SpecChannels(d.spec)

SampleRate(d) == SpecRate(d.spec)

\* Samples the packets from the i-th on decode to before the first failure.
RECURSIVE Yield(_, _)
Yield(pk, i) ==
  IF i > Len(pk) \/ ~pk[i].ok THEN 0 ELSE pk[i].n + Yield(pk, i + 1)

\* play's from_http call fails on what the URL serves.
PlayFromHttpFails ==
  /\ pc = "play_from_http"
  /\ \E m \in Medias :
       /\ FromHttp(m).res # "Ok"
       /\ PlayFromHttpErr
       /\ media' = m
       /\ decRet' = FromHttp(m).res
       /\ UNCHANGED <<dec, emitted, hostVars, obsVars, lockVars, callVars, appVars, mainVars, pctx, uiVars>>

\* play's from_http call returns the source.
PlayFromHttpBuilds ==
  /\ pc = "play_from_http"
  /\ \E m \in Medias :
       /\ FromHttp(m).res = "Ok"
       /\ PlayFromHttpOk(Yield(m.packets, 1))
       /\ media' = m
       /\ dec' = FromHttp(m).dec
       /\ decRet' = "Ok"
       /\ emitted' = <<>>
       /\ UNCHANGED <<hostVars, obsVars, lockVars, callVars, appVars, mainVars, pctx, uiVars>>

\* The appended source is pulled; the sink's queue pulls a source until its
\* first None.
DecNext ==
  /\ pc = "idle"
  /\ count = 1
  /\ dec.built
  /\ decRet \notin {"None", "panic"}
  /\ LET r == SymphoniaNext(dec)
     IN  /\ dec' = r.dec
         /\ decRet' = r.out
         /\ emitted' = IF r.out = "Some" THEN Append(emitted, r.sample) ELSE emitted
  /\ UNCHANGED <<ctlVars, stop, sinkVars, outVars, audioVars, histVars,
                 media, hostVars, obsVars, lockVars, callVars, appVars, mainVars, pctx, uiVars>>

\* One play call on any media, from construction to the append, and the
\* pulls of the source.
NextDecoder ==
  \/ decRet = "none" /\ PlayCall(MaxSwitchPlays) /\ UNCHANGED extVars
  \/ PlayFromHttpFails
  \/ PlayFromHttpBuilds
  \/ PlayLen /\ UNCHANGED extVars
  \/ PlayClear /\ UNCHANGED extVars
  \/ PlayAppend /\ UNCHANGED extVars
  \/ DecNext

SpecDecoder == InitDefault /\ [][NextDecoder]_vars

\* ------------------------------------------------------------------ calls

\* The last two calls after call c.
LastTwo(cs, c) ==
  IF Len(cs) < 2 THEN Append(cs, c) ELSE <<cs[2], c>>

\* One session on the default device with the flag calls recorded: whether a
\* stop() found the queue empty (sink.len() = 0), and the order of the
\* pause() and resume() calls.
NextCalls ==
  \/ PlayCall(MaxSwitchPlays) /\ UNCHANGED extVars
  \/ PlayFromHttpErr /\ UNCHANGED extVars
  \/ \E len \in 1 .. MaxSwitchSamples : PlayFromHttpOk(len) /\ UNCHANGED extVars
  \/ PlayLen /\ UNCHANGED extVars
  \/ PlayClear /\ UNCHANGED extVars
  \/ PlayAppend /\ UNCHANGED extVars
  \/ Stop /\ idleStop' = (idleStop \/ count = 0)
          /\ UNCHANGED <<hostVars, obsVars, lockVars, decVars, appVars, mainVars, pctx, uiVars, toggles>>
  \/ Pause /\ toggles' = LastTwo(toggles, "pause")
           /\ UNCHANGED <<hostVars, obsVars, lockVars, decVars, appVars, mainVars, pctx, uiVars, idleStop>>
  \/ Resume /\ toggles' = LastTwo(toggles, "resume")
            /\ UNCHANGED <<hostVars, obsVars, lockVars, decVars, appVars, mainVars, pctx, uiVars, idleStop>>
  \/ \E s \in DOMAIN streams : PullPick(s) /\ UNCHANGED extVars
  \/ \E s \in DOMAIN streams : PullSample(s) /\ UNCHANGED extVars
  \/ \E s \in DOMAIN streams : PullCheck(s) /\ UNCHANGED extVars
  \/ PullClear /\ UNCHANGED extVars
  \/ PullNext /\ UNCHANGED extVars
  \/ PullDone /\ UNCHANGED extVars
  \/ PullGoNext /\ UNCHANGED extVars

SpecCalls == InitDefault /\ [][NextCalls]_vars

\* ------------------------------------------------------------ the library

\* Strings are sequences of characters.  A tag is made of letters, commas and
\* spaces.
TagChars == {"a", ",", " "}

Strings(n) == UNION {[1 .. k -> TagChars] : k \in 0 .. n}

TagLists == UNION {[1 .. k -> Strings(MaxTagLen)] : k \in 0 .. MaxTags}

\* [String]::join(",")
RECURSIVE Join(_)
Join(list) ==
  IF list = <<>> THEN <<>>
  ELSE IF Len(list) = 1 THEN list[1]
  ELSE list[1] \o <<",">> \o Join(Tail(list))

\* str::split(','): the pieces between the commas, one more than the commas.
RECURSIVE Split(_)
Split(s) ==
  IF \E i \in DOMAIN s : s[i] = ","
    THEN LET i == CHOOSE k \in DOMAIN s : s[k] = "," /\ \A j \in 1 .. k - 1 : s[j] /= ","
         IN  <<SubSeq(s, 1, i - 1)>> \o Split(SubSeq(s, i + 1, Len(s)))
    ELSE <<s>>

\* str::trim
RECURSIVE TrimStart(_)
TrimStart(s) == IF s /= <<>> /\ s[1] = " " THEN TrimStart(Tail(s)) ELSE s

RECURSIVE TrimEnd(_)
TrimEnd(s) ==
  IF s /= <<>> /\ s[Len(s)] = " " THEN TrimEnd(SubSeq(s, 1, Len(s) - 1)) ELSE s

Trim(s) == TrimEnd(TrimStart(s))

\* impl ToString for Tags
TagsToString(tags) == Join(tags)

\* impl From<String> for Tags
TagsFrom(value) == [i \in DOMAIN Split(value) |-> Trim(Split(value)[i])]

\* i64::to_string, and the integer a column of INTEGER affinity compares a
\* bound text with.
Digit == <<"0", "1", "2", "3", "4", "5", "6", "7", "8", "9">>

RECURSIVE NatToString(_)
NatToString(n) ==
  IF n < 10 THEN <<Digit[n + 1]>> ELSE NatToString(n \div 10) \o <<Digit[(n % 10) + 1]>>

I64ToString(n) == IF n < 0 THEN <<"-">> \o NatToString(-n) ELSE NatToString(n)

DigitValue(c) == (CHOOSE k \in DOMAIN Digit : Digit[k] = c) - 1

RECURSIVE StringToNat(_)
StringToNat(s) ==
  IF s = <<>> THEN 0 ELSE 10 * StringToNat(SubSeq(s, 1, Len(s) - 1)) + DigitValue(s[Len(s)])

TextToInteger(s) == IF s[1] = "-" THEN -StringToNat(Tail(s)) ELSE StringToNat(s)

\* The stations the calls are made with: every tag list, one of two names, an
\* id the caller chose.
StationNames == {"n1", "n2"}

StationIds == 1 .. MaxRows

NewStation(id, name, tags) ==
  [id |-> id, provider |-> "radio-browser", provider_id |-> "uuid", name |-> name,
   url |-> "url", codec |-> "MP3", bitrate |-> 128, tags |-> tags, country |-> "c"]

Stations ==
  {NewStation(id, n, t) : id \in StationIds, n \in StationNames, t \in TagLists}

\* The columns an INSERT or UPDATE binds, and the Station a SELECT row gives.
RowOfStation(id, s) == [s EXCEPT !.id = id, !.tags = TagsToString(s.tags)]

StationOfRow(row) == [row EXCEPT !.tags = TagsFrom(row.tags)]

\* The id the table gives a new row: one more than the largest in use.
RECURSIVE MaxRowId(_)
MaxRowId(rows) ==
  IF rows = <<>> THEN 0
  ELSE LET m == MaxRowId(Tail(rows)) IN IF rows[1].id > m THEN rows[1].id ELSE m

NextRowId == MaxRowId(table) + 1

DbReturn(op, arg, id, rows) == [op |-> op, arg |-> arg, id |-> id, rows |-> rows]

\* Sqlite::create
Create(s) ==
  /\ Len(table) < MaxRows
  /\ table' = Append(table, RowOfStation(NextRowId, s))
  /\ lib' = (NextRowId :> [s EXCEPT !.id = NextRowId]) @@ lib
  /\ dbRet' = DbReturn("create", s, NextRowId, <<>>)
  /\ UNCHANGED <<apiVars, mainVars, playerVars>>

\* Sqlite::search
Search ==
  /\ dbRet.op /= "search"
  /\ dbRet' = DbReturn("search", NoStation, 0, [i \in DOMAIN table |-> StationOfRow(table[i])])
  /\ UNCHANGED <<table, lib, apiVars, mainVars, playerVars>>

\* Sqlite::update
Update(s) ==
  /\ table' = [i \in DOMAIN table |->
                 IF table[i].id = s.id THEN RowOfStation(s.id, s) ELSE table[i]]
  /\ lib' = [i \in DOMAIN lib |-> IF i = s.id THEN s ELSE lib[i]]
  /\ dbRet' = DbReturn("update", NoStation, s.id, <<>>)
  /\ UNCHANGED <<apiVars, mainVars, playerVars>>

\* Sqlite::delete
Delete(station_id) ==
  /\ LET Kept(row) == row.id /= TextToInteger(I64ToString(station_id))
     IN  table' = SelectSeq(table, Kept)
  /\ lib' = [i \in DOMAIN lib \ {station_id} |-> lib[i]]
  /\ dbRet' = DbReturn("delete", NoStation, station_id, <<>>)
  /\ UNCHANGED <<apiVars, mainVars, playerVars>>

\* The library on its own: any sequence of Storage calls.
NextLibrary ==
  \/ \E s \in Stations : Create(s)
  \/ Search
  \/ \E s \in Stations : Update(s)
  \/ \E id \in StationIds \cup {-1, 0} : Delete(id)

SpecLibrary == Init /\ [][NextLibrary]_vars

\* ------------------------------------------------------------ the catalog

\* StationsFilter: each field an Option.
None == <<>>

Some(x) == <<x>>

NoFilter == [order_by |-> None, limit |-> None, offset |-> None]

Filters ==
  [order_by : {None, Some("CreatedAt")},
   limit : {None} \cup {Some(n) : n \in 0 .. MaxFilterValue},
   offset : {None} \cup {Some(n) : n \in 0 .. MaxFilterValue}]

\* u32::to_string
RECURSIVE U32ToString(_)
U32ToString(n) ==
  IF n < 10 THEN Digit[n + 1] ELSE U32ToString(n \div 10) \o Digit[(n % 10) + 1]

\* impl From<&OrderBy> for &str
OrderByStr(value) == CASE value = "CreatedAt" -> ""

\* url.query_pairs_mut().append_pair(name, value): "&" first unless the query
\* is empty.
AppendPair(u, name, value) ==
  [u EXCEPT !.query = (IF u.query = "" THEN "" ELSE u.query \o "&") \o name \o "=" \o value]

\* The steps of RadioBrowser::search_url.
SearchUrlCall(f) ==
  /\ apiPc = "idle"
  /\ filter' = f
  /\ url' = AppendPair([path |-> "/json/stations/search", query |-> ""], "hidebroken", "true")
  /\ apiPc' = "url_limit"
  /\ UNCHANGED <<resp, stations, libVars, mainVars, playerVars>>

SearchUrlLimitAlways ==
  AppendPair(url, "limit", IF filter.limit = None THEN "" ELSE U32ToString(filter.limit[1]))

SearchUrlLimitValue ==
  IF filter.limit /= None THEN AppendPair(url, "limit", U32ToString(filter.limit[1])) ELSE url

SearchUrlLimit ==
  /\ apiPc = "url_limit"
  /\ url' = SearchUrlLimitValue
  /\ apiPc' = "url_offset"
  /\ UNCHANGED <<filter, resp, stations, libVars, mainVars, playerVars>>

SearchUrlOffset ==
  /\ apiPc = "url_offset"
  /\ url' = IF filter.offset /= None
              THEN AppendPair(url, "offset", U32ToString(filter.offset[1]))
              ELSE url
  /\ apiPc' = "url_order"
  /\ UNCHANGED <<filter, resp, stations, libVars, mainVars, playerVars>>

SearchUrlOrder ==
  /\ apiPc = "url_order"
  /\ url' = IF filter.order_by /= None
              THEN AppendPair(url, "order", OrderByStr(filter.order_by[1]))
              ELSE url
  /\ apiPc' = "url_done"
  /\ UNCHANGED <<filter, resp, stations, libVars, mainVars, playerVars>>

\* What the catalog answers: records of any codec, told apart by their uuid.
Codecs == {"MP3", "FLAC", "AAC", "mp3"}

RadioStation(uuid, codec) ==
  [uuid |-> uuid, name |-> "n1", url |-> "url", codec |-> codec, bitrate |-> 128,
   tags |-> <<"a">>, country |-> "c"]

Responses ==
  UNION {{[i \in 1 .. n |-> RadioStation(i, c[i])] : c \in [1 .. n -> Codecs]} :
           n \in 0 .. MaxResponse}

\* impl From<RadioStation> for Station
StationFrom(value) ==
  [id |-> 0, provider |-> "radio-browser", provider_id |-> value.uuid, name |-> value.name,
   url |-> value.url, codec |-> value.codec, bitrate |-> value.bitrate,
   tags |-> TagsFrom(value.tags), country |-> value.country]

\* codecs.contains(&s.codec.as_str())
SupportedAnyCase(codec) == codec \in {"MP3", "FLAC", "mp3"}

Supported(codec) == codec \in {"MP3", "FLAC"}

\* RadioBrowser::search: the request is sent and the body decoded,
SearchSend ==
  /\ apiPc = "url_done"
  /\ \E data \in Responses : resp' = data
  /\ apiPc' = "collect"
  /\ UNCHANGED <<filter, url, stations, libVars, mainVars, playerVars>>

\* then filtered by codec and converted.
SearchCollect ==
  /\ apiPc = "collect"
  /\ LET Kept(s) == Supported(s.codec)
         kept == SelectSeq(resp, Kept)
     IN  stations' = [i \in DOMAIN kept |-> StationFrom(kept[i])]
  /\ apiPc' = "done"
  /\ UNCHANGED <<filter, url, resp, libVars, mainVars, playerVars>>

\* Client::stations: the body is decoded into stations and filtered by codec.
ClientStations ==
  /\ apiPc = "idle"
  /\ \E data \in Responses :
       /\ resp' = data
       /\ LET Kept(s) == Supported(s.codec)
              body == [i \in DOMAIN data |-> StationFrom(data[i])]
          IN  stations' = SelectSeq(body, Kept)
  /\ apiPc' = "done"
  /\ UNCHANGED <<filter, url, libVars, mainVars, playerVars>>

\* search_url on every filter.
NextSearchUrl ==
  \/ \E f \in Filters : SearchUrlCall(f)
  \/ SearchUrlLimit
  \/ SearchUrlOffset
  \/ SearchUrlOrder

SpecSearchUrl == Init /\ [][NextSearchUrl]_vars

\* The two clients on every response, search with the filters the UI passes.
NextCatalog ==
  \/ \E f \in {NoFilter, [NoFilter EXCEPT !.limit = Some(1)]} : SearchUrlCall(f)
  \/ SearchUrlLimit
  \/ SearchUrlOffset
  \/ SearchUrlOrder
  \/ SearchSend
  \/ SearchCollect
  \/ ClientStations

SpecCatalog == Init /\ [][NextCatalog]_vars

\* --------------------------------------------------------------- startup

\* The command line: --log-filepath and --db-filepath, each given or not.
PathArgs == {"t.log", "t.db", "/tmp/a", "/tmp/b", "x", "./y"}

Opts ==
  [log_filepath : {None} \cup {Some(p) : p \in PathArgs},
   db_filepath : {None} \cup {Some(p) : p \in PathArgs}]

\* dirs::config_dir() of the user running the program.
ConfigDir == "/home/u/.config"

\* Opt::default_filepath
DefaultFilepath(name) == ConfigDir \o "/tradio" \o "/" \o name

\* Opt::log_filepath
LogFilepath(o) ==
  IF o.log_filepath /= None THEN o.log_filepath[1] ELSE DefaultFilepath("tradio.log")

\* Opt::db_filepath
DbFilepath(o) ==
  IF o.log_filepath /= None THEN o.log_filepath[1] ELSE DefaultFilepath("sqlite.db")

\* main: Opt::parse(),
MainParse(o) ==
  /\ startup.pc = "parse"
  /\ opt' = o
  /\ startup' = [startup EXCEPT !.pc = "log"]
  /\ UNCHANGED <<appVars, playerVars>>

\* the log file is created at log_filepath(),
MainLog ==
  /\ startup.pc = "log"
  /\ startup' = [startup EXCEPT !.pc = "db", !.log = LogFilepath(opt)]
  /\ UNCHANGED <<opt, appVars, playerVars>>

\* and, the player built, the database is opened at db_filepath().
MainDb ==
  /\ startup.pc = "db"
  /\ startup' = [startup EXCEPT !.pc = "ui", !.db = DbFilepath(opt)]
  /\ UNCHANGED <<opt, appVars, playerVars>>

NextStartup ==
  \/ \E o \in Opts : MainParse(o)
  \/ MainLog
  \/ MainDb

SpecStartup == Init /\ [][NextStartup]_vars

\* ------------------------------------------------------------- the drain

\* The thread inside play keeps running: a step of the drain loop that can be
\* taken is taken.
DrainStep ==
  (PlayLen \/ PlayRaise \/ PlaySleep \/ PlayRecv \/ PlayClear \/ PlayAppend)
    /\ UNCHANGED extVars

\* The host keeps calling the callback of a live stream: a step of a pull that
\* can be taken is taken.
CallbackStep ==
  ((\E s \in DOMAIN streams : PullPick(s) \/ PullSample(s) \/ PullCheck(s))
     \/ PullClear \/ PullNext \/ PullDone \/ PullGoNext)
    /\ UNCHANGED extVars

\* Players built by new_idle (nothing bound) and by default().
InitDrain == Init \/ InitDefault

\* Playback on either player, the two threads scheduled fairly.
SpecDrain ==
  InitDrain /\ [][NextPlay]_vars /\ WF_vars(DrainStep) /\ WF_vars(CallbackStep)

\* ------------------------------------------------------------ two players

\* play called from two threads on one Rodio.  pc, ret, playSrc and rx are
\* those of the thread running; ctx and pctx hold the other thread's.

\* The scheduler runs the other thread.
SwitchPlay ==
  /\ running' = 3 - running
  /\ pc' = ctx.pc
  /\ ret' = ctx.ret
  /\ playSrc' = pctx.playSrc
  /\ rx' = pctx.rx
  /\ ctx' = [ctx EXCEPT !.pc = pc, !.ret = ret]
  /\ pctx' = [playSrc |-> playSrc, rx |-> rx]
  /\ UNCHANGED <<udArg, udStream, stop, sinkVars, outVars, audioVars, histVars,
                 hostVars, obsVars, conc, decVars, callVars, appVars, mainVars, uiVars>>

\* Two threads calling play and stop on the default device, and the playback
\* path.
NextTwoPlays ==
  \/ SwitchPlay
  \/ PlayCall(MaxPlays) /\ UNCHANGED extVars
  \/ \E len \in 1 .. MaxSwitchSamples : PlayFromHttpOk(len) /\ UNCHANGED extVars
  \/ PlayLen /\ UNCHANGED extVars
  \/ PlayRaise /\ UNCHANGED extVars
  \/ PlaySleep /\ UNCHANGED extVars
  \/ PlayRecv /\ UNCHANGED extVars
  \/ PlayClear /\ UNCHANGED extVars
  \/ PlayAppend /\ UNCHANGED extVars
  \/ Stop /\ UNCHANGED extVars
  \/ \E s \in DOMAIN streams : PullPick(s) /\ UNCHANGED extVars
  \/ \E s \in DOMAIN streams : PullSample(s) /\ UNCHANGED extVars
  \/ \E s \in DOMAIN streams : PullCheck(s) /\ UNCHANGED extVars
  \/ PullClear /\ UNCHANGED extVars
  \/ PullNext /\ UNCHANGED extVars
  \/ PullDone /\ UNCHANGED extVars
  \/ PullGoNext /\ UNCHANGED extVars

SpecTwoPlays == InitDefault /\ [][NextTwoPlays]_vars

\* ------------------------------------------------------------ volume keys

\* i8 addition: the sum wrapped to 8 bits (what a release build computes; a
\* debug build panics when the sum is out of range).
I8Wrap(n) == ((n + 128) % 256) - 128

\* set_volume(volume() + step): Ui::handle_key on '+' and '-', App::volume_up
\* and App::volume_down.
VolumeStep(op, step) ==
  /\ pc = "idle"
  /\ LET cur == Volume(volume)
         sum == cur + step
     IN  /\ volStep' = [op |-> op, from |-> cur, overflow |-> sum \notin I8]
         /\ SetVolume(I8Wrap(sum))
  /\ UNCHANGED <<hostVars, obsVars, lockVars, decVars, callVars, appVars, mainVars, pctx,
                 app, tbl>>

VolumeUp == VolumeStep("up", 5)

VolumeDown == VolumeStep("down", -5)

\* No volume key since the last direct set_volume.
NoVolumeStep == [op |-> "none", from |-> 0, overflow |-> FALSE]

\* The volume keys from every volume set_volume can leave.
NextVolumeKeys ==
  \/ VolumeUp
  \/ VolumeDown
  \/ \E v \in I8 :
       /\ SetVolume(v)
       /\ volStep' = NoVolumeStep
       /\ UNCHANGED <<hostVars, obsVars, lockVars, decVars, callVars, appVars, mainVars,
                      pctx, app, tbl>>

SpecVolumeKeys == Init /\ [][NextVolumeKeys]_vars

\* ----------------------------------------------------------- application

\* Station urls the front ends can select.
StationUrls == {"u1", "u2"}

\* What the application steps leave alone besides the player.
appFrame ==
  <<hostVars, obsVars, lockVars, decVars, callVars, appVars, mainVars, pctx, volStep, tbl>>

\* The station recorded after player.play returned res when the `?` is left
\* out.
RecordedAfterPlayAlways(res, old, selected) == selected
\* self.player.play(&station.url)?; ... = Some(station.clone())
RecordedAfterPlay(res, old, selected) == IF res = "Ok" THEN selected ELSE old

\* App::play_track is called: self.player.play(&station.url)
PlayTrackCall(st) ==
  /\ app.pc = "none"
  /\ PlayCall(MaxPlays)
  /\ app' = [app EXCEPT !.pc = "play_track", !.arg = Some(st), !.ret = "pending",
                        !.op = "play_track", !.url = Some(st)]
  /\ UNCHANGED appFrame

\* player.play has returned: `?` returns its error, else state.playing is
\* set and Ok(()) returned.
PlayTrackReturn ==
  /\ app.pc = "play_track"
  /\ pc = "idle"
  /\ app' = [app EXCEPT !.pc = "none", !.arg = None, !.ret = ret.res,
                        !.playing = RecordedAfterPlay(ret.res, app.playing, app.arg)]
  /\ UNCHANGED <<ctlVars, stop, sinkVars, outVars, audioVars, histVars, appFrame>>

\* Ui::handle_enter on the library layout with a selected station.
HandleEnterCall(st) ==
  /\ app.pc = "none"
  /\ PlayCall(MaxPlays)
  /\ app' = [app EXCEPT !.pc = "enter", !.arg = Some(st), !.ret = "pending",
                        !.op = "enter", !.url = Some(st)]
  /\ UNCHANGED appFrame

HandleEnterReturn ==
  /\ app.pc = "enter"
  /\ pc = "idle"
  /\ app' = [app EXCEPT !.pc = "none", !.arg = None, !.ret = ret.res,
                        !.active_station =
                           RecordedAfterPlay(ret.res, app.active_station, app.arg)]
  /\ UNCHANGED <<ctlVars, stop, sinkVars, outVars, audioVars, histVars, appFrame>>

\* App::stop is called: self.player.stop()
AppStopCall ==
  /\ app.pc = "none"
  /\ Stop
  /\ app' = [app EXCEPT !.pc = "wait_end", !.ret = "pending", !.op = "stop"]
  /\ UNCHANGED appFrame

\* The position of App::stop after player.stop() when wait_end is left out.
AfterWaitEndSkipped(r) == "stop_record"
\* self.player.wait_end(): sink.sleep_until_end() takes the stored receiver;
\* with none stored it returns at once.
AfterWaitEnd(r) == IF r = 0 THEN "stop_record" ELSE "wait_recv"

WaitEnd ==
  /\ app.pc = "wait_end"
  /\ rx' = sleepRx
  /\ sleepRx' = 0
  /\ app' = [app EXCEPT !.pc = AfterWaitEnd(sleepRx)]
  /\ UNCHANGED <<pc, ret, playSrc, udArg, udStream, stop, paused, volume, count,
                 next_sounds, signalled, outVars, audioVars, histVars, appFrame>>

\* ... and blocks until the source it belongs to has ended.
WaitEndRecv ==
  /\ app.pc = "wait_recv"
  /\ rx \in signalled
  /\ rx' = 0
  /\ app' = [app EXCEPT !.pc = "stop_record"]
  /\ UNCHANGED <<pc, ret, playSrc, udArg, udStream, stop, sinkVars, outVars, audioVars,
                 histVars, appFrame>>

\* self.state.lock().unwrap().playing = None
AppStopReturn ==
  /\ app.pc = "stop_record"
  /\ app' = [app EXCEPT !.pc = "none", !.playing = None, !.ret = "stopped"]
  /\ UNCHANGED <<ctlVars, stop, sinkVars, outVars, audioVars, histVars, appFrame>>

\* The play steps inside a call of the application.
AppPlaySteps ==
  \/ PlayFromHttpErr /\ UNCHANGED extVars
  \/ \E len \in 1 .. MaxSwitchSamples : PlayFromHttpOk(len) /\ UNCHANGED extVars
  \/ PlayLen /\ UNCHANGED extVars
  \/ PlayRaise /\ UNCHANGED extVars
  \/ PlaySleep /\ UNCHANGED extVars
  \/ PlayRecv /\ UNCHANGED extVars
  \/ PlayClear /\ UNCHANGED extVars
  \/ PlayAppend /\ UNCHANGED extVars

\* The playback path.
AppPullSteps ==
  \/ \E s \in DOMAIN streams : PullPick(s) /\ UNCHANGED extVars
  \/ \E s \in DOMAIN streams : PullSample(s) /\ UNCHANGED extVars
  \/ \E s \in DOMAIN streams : PullCheck(s) /\ UNCHANGED extVars
  \/ PullClear /\ UNCHANGED extVars
  \/ PullNext /\ UNCHANGED extVars
  \/ PullDone /\ UNCHANGED extVars
  \/ PullGoNext /\ UNCHANGED extVars

\* The front ends starting and stopping stations on the default device.
NextStations ==
  \/ \E st \in StationUrls : PlayTrackCall(st)
  \/ PlayTrackReturn
  \/ \E st \in StationUrls : HandleEnterCall(st)
  \/ HandleEnterReturn
  \/ AppStopCall
  \/ WaitEnd
  \/ WaitEndRecv
  \/ AppStopReturn
  \/ AppPlaySteps
  \/ AppPullSteps

SpecStations == InitDefault /\ [][NextStations]_vars

\* The device recorded after player.use_device returned res when the `?` is
\* left out.
DeviceAfterUseAlways(res, old, id) == id
\* self.player.use_device(device)?; state.device = Some(device.id().to_string())
DeviceAfterUse(res, old, id) == IF res = "Ok" THEN id ELSE old

\* App::use_device is called: self.player.use_device(device)
AppUseDeviceCall(d) ==
  /\ app.pc = "none"
  /\ app.playing = None \/ nplays < MaxPlays
  /\ UseDeviceCall(d)
  /\ app' = [app EXCEPT !.pc = "use_device", !.arg = Some(d.id), !.ret = "pending",
                        !.op = "use_device"]
  /\ UNCHANGED appFrame

\* player.use_device has returned: `?` returns its error; else the device is
\* recorded and, with a station recorded as playing, player.play is called
\* with its url; with none Ok(()) is returned.
AppUseDeviceRecord ==
  /\ app.pc = "use_device"
  /\ pc = "idle"
  /\ LET device == DeviceAfterUse(ret.res, app.device, app.arg)
     IN  IF ret.res = "Ok" /\ app.playing # None
           THEN /\ PlayCall(MaxPlays)
                /\ app' = [app EXCEPT !.pc = "replay", !.device = device,
                                      !.url = app.playing]
           ELSE /\ app' = [app EXCEPT !.pc = "none", !.device = device, !.arg = None,
                                      !.ret = ret.res]
                /\ UNCHANGED <<ctlVars, stop, sinkVars, outVars, audioVars, histVars>>
  /\ UNCHANGED appFrame

\* self.player.play(&station.url)?; Ok(())
AppUseDeviceReturn ==
  /\ app.pc = "replay"
  /\ pc = "idle"
  /\ app' = [app EXCEPT !.pc = "none", !.arg = None, !.ret = ret.res]
  /\ UNCHANGED <<ctlVars, stop, sinkVars, outVars, audioVars, histVars, appFrame>>

\* The steps of player.use_device inside a call of the application.
AppUseDeviceSteps ==
  \/ UseDeviceCheck /\ UNCHANGED extVars
  \/ UseDeviceResolve /\ UNCHANGED extVars
  \/ UseDeviceOpenErr /\ UNCHANGED extVars
  \/ UseDeviceOpenOk /\ UNCHANGED extVars
  \/ UseDeviceAssign /\ UNCHANGED extVars
  \/ UseDeviceBindOk /\ UNCHANGED extVars
  \/ UseDeviceBindErr /\ UNCHANGED extVars

\* The application starting stations and switching devices.
NextAppDevices ==
  \/ \E st \in StationUrls : PlayTrackCall(st)
  \/ PlayTrackReturn
  \/ \E d \in DeviceArgs : AppUseDeviceCall(d)
  \/ AppUseDeviceRecord
  \/ AppUseDeviceReturn
  \/ AppUseDeviceSteps
  \/ AppPlaySteps
  \/ AppPullSteps

SpecAppDevices == InitDefault /\ [][NextAppDevices]_vars

\* ------------------------------------------------------------------ table

\* Builds of the program: usize arithmetic panics on overflow in a debug
\* build and wraps in a release build.
Builds == {"debug", "release"}

\* usize::MAX, written as the two's complement -1.
UsizeMax == -1

\* What the table operations leave alone.
tblFrame ==
  <<ctlVars, stop, sinkVars, outVars, audioVars, histVars, hostVars, obsVars, lockVars,
    decVars, callVars, appVars, mainVars, pctx, volStep, app>>

\* The operations end with the panic of the thread; a run is followed up to
\* the first wrapped subtraction.
TableAlive == tbl.out \notin {"panic", "wrapped"}

\* state.selected().unwrap_or(0)
SelectedOr0 == IF tbl.selected = None THEN 0 ELSE tbl.selected[1]

\* Table::new(list, ..) on a list of n rows, in a program built as build
TableNew(n, build) ==
  /\ tbl.op = "none"
  /\ tbl' = [kind |-> "table", build |-> build, len |-> n, stateful |-> FALSE,
             selected |-> None, op |-> "new", out |-> "ok"]
  /\ UNCHANGED tblFrame

\* Devices::new(): an empty list and TableState::default()
DevicesNew(build) ==
  /\ tbl.op = "none"
  /\ tbl' = [kind |-> "devices", build |-> build, len |-> 0, stateful |-> TRUE,
             selected |-> None, op |-> "new", out |-> "ok"]
  /\ UNCHANGED tblFrame

\* .with_state(): state.select(Some(0))
WithState ==
  /\ tbl.op = "new"
  /\ tbl' = [tbl EXCEPT !.stateful = TRUE, !.selected = Some(0), !.op = "with_state"]
  /\ UNCHANGED tblFrame

\* The selection after set_list when the new list is not looked at.
SetListSelectedAlways(stateful, n, old) == IF stateful THEN Some(0) ELSE old
\* if self.state.is_some() && !self.list.is_empty() { select(Some(0)) }
SetListSelected(stateful, n, old) == IF stateful /\ n > 0 THEN Some(0) ELSE old

\* Table::set_list with a list of n rows
SetList(n) ==
  /\ TableAlive
  /\ tbl.kind = "table"
  /\ tbl' = [tbl EXCEPT !.len = n,
                        !.selected = SetListSelected(tbl.stateful, n, tbl.selected),
                        !.op = "set_list", !.out = "ok"]
  /\ UNCHANGED tblFrame

\* Positions list.iter().position(Device::is_default) can give on n devices.
DefaultPositions(n) == {None} \cup {Some(i) : i \in 0 .. n - 1}

\* Devices::set_list with a list of n devices, the default one at position def
DevicesSetList(n, def) ==
  /\ TableAlive
  /\ tbl.kind = "devices"
  /\ tbl' = [tbl EXCEPT !.len = n, !.selected = def, !.op = "set_list", !.out = "ok"]
  /\ UNCHANGED tblFrame

\* Table::handle_up and Devices::up: self.list.len() - 1 underflows on an
\* empty list.
HandleUp ==
  /\ TableAlive
  /\ tbl.op # "none"
  /\ IF ~tbl.stateful
       THEN tbl' = [tbl EXCEPT !.op = "up", !.out = "ok"]
       ELSE IF SelectedOr0 # 0
         THEN tbl' = [tbl EXCEPT !.selected = Some(SelectedOr0 - 1), !.op = "up", !.out = "ok"]
         ELSE IF tbl.len > 0
           THEN tbl' = [tbl EXCEPT !.selected = Some(tbl.len - 1), !.op = "up", !.out = "ok"]
           ELSE IF tbl.build = "debug"
             THEN tbl' = [tbl EXCEPT !.op = "up", !.out = "panic"]
             ELSE tbl' = [tbl EXCEPT !.selected = Some(UsizeMax), !.op = "up",
                                     !.out = "wrapped"]
  /\ UNCHANGED tblFrame

\* Table::handle_down and Devices::down: on an empty list self.list.len() - 1 underflows; the
\* wrapped value is usize::MAX, above every index, so the selection moves on.
HandleDown ==
  /\ TableAlive
  /\ tbl.op # "none"
  /\ IF ~tbl.stateful
       THEN tbl' = [tbl EXCEPT !.op = "down", !.out = "ok"]
       ELSE IF tbl.len > 0
         THEN tbl' = [tbl EXCEPT !.selected =
                                   IF SelectedOr0 >= tbl.len - 1 THEN Some(0)
                                                                 ELSE Some(SelectedOr0 + 1),
                                 !.op = "down", !.out = "ok"]
         ELSE IF tbl.build = "debug"
           THEN tbl' = [tbl EXCEPT !.op = "down", !.out = "panic"]
           ELSE tbl' = [tbl EXCEPT !.selected = Some(SelectedOr0 + 1), !.op = "down",
                                   !.out = "wrapped"]
  /\ UNCHANGED tblFrame

\* Table::get_selected: Some(&self.list[state.selected().unwrap_or(0)]); the
\* index is checked, out of the list it panics.
GetSelected ==
  /\ TableAlive
  /\ tbl.kind = "table"
  /\ tbl' = [tbl EXCEPT !.op = "get_selected",
                        !.out = IF ~tbl.stateful THEN "None"
                                ELSE IF SelectedOr0 < tbl.len THEN "Some" ELSE "panic"]
  /\ UNCHANGED tblFrame

\* Devices::selected: indexes only with a selection.
DevicesSelected ==
  /\ TableAlive
  /\ tbl.kind = "devices"
  /\ tbl' = [tbl EXCEPT !.op = "selected",
                        !.out = IF tbl.selected = None THEN "None"
                                ELSE IF tbl.selected[1] < tbl.len THEN "Some" ELSE "panic"]
  /\ UNCHANGED tblFrame

NextTable ==
  \/ \E n \in 0 .. MaxRows, build \in Builds : TableNew(n, build)
  \/ WithState
  \/ \E n \in 0 .. MaxRows : SetList(n)
  \/ HandleUp
  \/ HandleDown
  \/ GetSelected
  \/ \E build \in Builds : DevicesNew(build)
  \/ \E n \in 0 .. MaxHostDevices : \E def \in DefaultPositions(n) : DevicesSetList(n, def)
  \/ DevicesSelected

SpecTable == Init /\ [][NextTable]_vars

\* ------------------------------------------------------------------ claims

\* C1: for control-thread calls made one after another the sink queue never
\* holds two sessions: sink.len() is at most 1, at most one session that has
\* not ended sits in the queue, and play appends only once the queue holds
\* none.
C1_AtMostOneSession ==
  /\ count <= 1
  /\ Cardinality(LiveSessions) <= 1
  /\ Len(next_sounds) <= 1
  /\ (pc = "play_append" => count = 0 /\ LiveSessions = {})

\* A second play has drained the first session by the stop flag and appended
\* its own.
C1_Witness ==
  /\ nplays = 2
  /\ 1 \in killed
  /\ LiveSessions = {2}
  /\ count = 1
  /\ ret = Result("play", "Ok")

C3_SwitchKeepsSource ==
  /\ [][(pc' # pc /\ (pc \in UdPcs \/ pc' \in UdPcs))
          => UNCHANGED <<queues, next_sounds, count, stop, delivered>>]_vars
  /\ [][delivered' # delivered
          => delivered' = Append(delivered, <<queues[QueueRx].id, queues[QueueRx].pos>>)]_vars

\* One session, never stopped, whose samples were pulled by the stream bound
\* before a switch and by the stream bound after it.
C3_Witness ==
  /\ nplays = 1
  /\ killed = {}
  /\ Len(streams) = 2
  /\ streams[1].pulled /\ ~streams[1].alive
  /\ streams[2].pulled /\ streams[2].alive
  /\ queues[QueueRx].id = 1
  /\ queues[QueueRx].pos >= 2

\* Number of samples of session id among the first n delivered.
DeliveredOf(id, n) ==
  Cardinality({j \in 1 .. n : delivered[j][1] = id})

\* C4: over any sequence of use_device calls the samples pulled from the
\* shared queue are the queued sources' samples in order, each one once
\* (none repeated, none skipped), and the samples not yet pulled stay within
\* reach of the bound stream: a session that has not ended sits in the queue
\* output every pulling stream reads.
C4_NoDropNoDuplicate ==
  /\ \A i \in DOMAIN delivered :
        /\ delivered[i][2] = DeliveredOf(delivered[i][1], i - 1)
        /\ (i > 1 => delivered[i - 1][1] <= delivered[i][1])
  /\ \A h \in DOMAIN queues :
        IsLive(queues[h]) =>
          /\ queues[h].pos = DeliveredOf(queues[h].id, Len(delivered))
          /\ \A s \in Pulling : streams[s].src = h

\* A whole session was pulled, part by the stream bound before a switch and
\* part by the stream bound after it.
C4_Witness ==
  /\ Len(streams) = 2
  /\ streams[1].pulled
  /\ streams[2].pulled
  /\ nplays = 1
  /\ delivered = <<(<<1, 0>>), (<<1, 1>>)>>
  /\ count = 0

\* C5 (as claimed): a use_device call for an identifier that devices() does
\* not list returns "device not found" and leaves active_device() as it was.
C5_AbsentIsNotFound ==
  [][(pc \in UdPcs /\ pc' = "idle"
        /\ udArg.id \notin {d.id : d \in Devices(active_out)})
       => (ret'.res = "device not found"
             /\ active_out'.device = aoAtCall.device)]_vars

\* C6 (as claimed): whenever use_device returns an error, ActiveOutput is
\* what it was when the call began.
C6_ErrorKeepsBinding ==
  [][(pc \in UdPcs /\ pc' = "idle" /\ ret'.res # "Ok")
       => active_out' = aoAtCall]_vars

\* C7: use_device(d) with d's identifier equal to the active device's returns
\* Ok at once: no stream is opened and ActiveOutput, the streams and the
\* queue binding are as before.
C7_SameDeviceIsNoOp ==
  [][(pc = "ud_lock" /\ pc' # pc
        /\ active_out.device # NoDevice /\ udArg.id = active_out.device.id)
       => (/\ pc' = "idle"
           /\ ret' = Result("use_device", "Ok")
           /\ UNCHANGED <<active_out, streams, queues, next_sounds, count, stop>>)]_vars

\* use_device returned Ok without opening a stream (ret names none) while a
\* device is bound, and the stream bound is still the first one opened.
C7_Witness ==
  /\ pc = "idle"
  /\ ret = Result("use_device", "Ok")
  /\ active_out.device # NoDevice
  /\ active_out.stream = 1
  /\ Len(streams) = 1

\* C8: volume() after set_volume(v) is clamp(v, 0, 100) for every i8 v, and
\* volume() is within 0..100, 100 on a new player.
C8_VolumeClamped ==
  /\ Volume(volume) \in 0 .. 100
  /\ (lastVolIn = {} => Volume(volume) = 100)
  /\ \A v \in lastVolIn : Volume(volume) = Clamp(v, 0, 100)

\* set_volume(57) was called and volume() is 57.
C8_Witness ==
  /\ lastVolIn = {57}
  /\ Volume(volume) = 57

\* C9: a play call that fails at construction returns the error and leaves
\* the queue, the stop flag, the pause state, the volume and the output
\* binding as they were.
C9_FailedPlayChangesNothing ==
  [][(pc = "play_from_http" /\ pc' = "idle")
       => (/\ ret' = Result("play", "Err")
           /\ UNCHANGED <<queues, next_sounds, count, sleepRx, signalled, stop,
                           paused, volume, active_out, streams>>)]_vars

\* A play call failed while the first session was playing, and that session
\* is still in the queue, not stopped.
C9_Witness ==
  /\ ret = Result("play", "Err")
  /\ nplays = 1
  /\ queues[QueueRx].id = 1
  /\ IsLive(queues[QueueRx])
  /\ ~queues[QueueRx].stopped
  /\ queues[QueueRx].pos >= 1
  /\ ~stop

\* C10: a session is ended by the stop flag only if the flag was raised while
\* that session was in the queue, and the check that observes the flag ends
\* its own source and resets the flag in the same check.
C10_StopIsSingleShot ==
  /\ [](killed \subseteq stopTargets)
  /\ [][apc = "clear" /\ apc' # apc
          => (~stop' /\ queues'[PullHandle].stopped /\ queues'[PullHandle].id \in killed)]_vars

\* The first session was ended by the flag; the second has passed its first
\* check and plays on with the flag clear.
C10_Witness ==
  /\ killed = {1}
  /\ nplays = 2
  /\ queues[QueueRx].id = 2
  /\ IsLive(queues[QueueRx])
  /\ queues[QueueRx].pos >= 1
  /\ ~stop

\* C11 (as claimed): when the host reports a default output device, the list
\* devices() returns has exactly one entry with is_default = true.
C11_OneDefaultEntry ==
  (pc = "idle" /\ ret.op = "devices" /\ ret.res = "Ok" /\ hostDef # "")
    => Cardinality({i \in DOMAIN ret.list : ret.list[i].is_default}) = 1

\* C12 (as claimed): a devices() call made after a use_device call returned
\* Ok lists exactly one active entry, the one with active_device()'s
\* identifier; one made before lists none.
C12_OneActiveEntry ==
  (pc = "idle" /\ ret.op = "devices" /\ ret.res = "Ok")
    => LET act == {i \in DOMAIN ret.list : ret.list[i].is_active}
       IN  IF everBound
             THEN /\ Cardinality(act) = 1
                  /\ \A i \in act : ret.list[i].id = active_out.device.id
             ELSE act = {}

\* C14: a devices() call, returning a list or an error, leaves ActiveOutput,
\* the streams, the queue, the stop flag, the pause state and the volume as
\* they were.
C14_DevicesIsReadOnly ==
  [][(ret'.op = "devices" /\ ret' # ret)
       => UNCHANGED <<active_out, streams, queues, next_sounds, count, sleepRx,
                       stop, paused, volume>>]_vars

\* devices() returned its list on a player that is bound, paused and has the
\* stop flag raised.
C14_Witness ==
  /\ ret.op = "devices"
  /\ ret.res = "Ok"
  /\ Len(ret.list) = 2
  /\ active_out.device # NoDevice
  /\ active_out.stream # 0
  /\ paused
  /\ stop

\* C20: a player built by new_idle has no active device; default() returns Ok
\* only with the host's default device bound, the entry devices() lists for it
\* marked active and default; default() returns the error when no listed
\* device is the default.
C20_DefaultBindsDefault ==
  /\ [](ret = Result("new_idle", "Ok") => active_out = NoOutput)
  /\ [][(ctor = "default_run" /\ ctor' = "default")
          => /\ hostDef # ""
             /\ active_out'.device.id = hostDef
             /\ active_out'.stream # 0
             /\ streams'[active_out'.stream].src = QueueRx
             /\ \E d \in Devices(active_out') :
                   d.id = hostDef /\ d.is_active /\ d.is_default]_vars
  /\ [][(ctor = "new_idle" /\ ctor' # ctor
           /\ \A d \in Devices(active_out) : ~d.is_default)
          => (ctor' = "failed" /\ ret'.res \in {"can't find default device", "Err"}
                /\ active_out' = NoOutput)]_vars

\* default() returned Ok on a host whose default is its second device, and
\* devices() then listed that device as active and default.
C20_Witness ==
  /\ ctor = "default"
  /\ hostOut = <<"d1", "d2">>
  /\ hostDef = "d2"
  /\ ret.op = "devices"
  /\ ret.res = "Ok"
  /\ ret.list[2] = [id |-> "d2", is_active |-> TRUE, is_default |-> TRUE]
  /\ ~ret.list[1].is_active

\* C13: when two use_device calls made from two threads for different
\* devices have both returned Ok, the active device is the argument of the
\* call that acquired the lock second and the stream held is the one that
\* call opened; while one call holds the lock the other is not inside.
C13_LastLockerWins ==
  /\ ~(pc \in UdPcs /\ ctx.pc \in UdPcs)
  /\ (/\ pc = "idle"
      /\ ctx.pc = "idle"
      /\ conc.calls[1].res = "Ok"
      /\ conc.calls[2].res = "Ok"
      /\ conc.calls[1].arg.id # conc.calls[2].arg.id)
       => LET last == conc.calls[conc.order[2]]
          IN  /\ Len(conc.order) = 2
              /\ active_out.device = last.arg
              /\ last.stream # 0
              /\ active_out.stream = last.stream
              /\ streams[last.stream].alive
              /\ streams[last.stream].src = QueueRx

\* Thread 1 called use_device(d1) while thread 2 held the lock for d2; both
\* returned Ok and d1 is active on the second stream opened.
C13_Witness ==
  /\ pc = "idle"
  /\ ctx.pc = "idle"
  /\ conc.contended
  /\ conc.order = <<2, 1>>
  /\ conc.calls[1].res = "Ok"
  /\ conc.calls[2].res = "Ok"
  /\ conc.calls[1].arg.id = "d1"
  /\ conc.calls[2].arg.id = "d2"
  /\ active_out.device.id = "d1"
  /\ active_out.stream = 2

\* C15: no step of a play, use_device or stop call changes the pause state or
\* the volume, so is_paused() and volume() return after the call what they
\* returned before it, also when the call switched to another device.
C15_SinkStateKept ==
  [][(pc # "idle" \/ pc' # "idle" \/ stop' # stop)
       => (paused' = paused /\ volume' = volume /\ Volume(volume') = Volume(volume))]_vars

\* A paused player at volume 0 with a session queued, inside a use_device call
\* that has replaced the first stream by a second one.
C15_Witness ==
  /\ pc = "ud_bind"
  /\ paused
  /\ lastVolIn = {-1}
  /\ Volume(volume) = 0
  /\ count = 1
  /\ active_out.stream = 2
  /\ ~streams[1].alive

\* The samples of the packets from the i-th on, up to the first failure.
RECURSIVE Interleaved(_, _)
Interleaved(pk, i) ==
  IF i > Len(pk) \/ ~pk[i].ok
    THEN <<>>
    ELSE [j \in 1 .. pk[i].n |-> <<i, j - 1>>] \o Interleaved(pk, i + 1)

\* C16 (as claimed): the pulls of a source return the samples of its packets
\* in packet order, each once, up to the first packet that cannot be read or
\* decoded, where the pull returns None; no pull ends in an error.
C16_SamplesInPacketOrder ==
  dec.built =>
    LET expected == Interleaved(dec.packets, 1)
    IN  /\ decRet # "panic"
        /\ Len(emitted) <= Len(expected)
        /\ emitted = SubSeq(expected, 1, Len(emitted))
        /\ (decRet = "None" => emitted = expected)

\* Every step of from_http and from_reader succeeds on m.
StagesOk(m) ==
  /\ m.http
  /\ m.probe
  /\ m.track
  /\ m.codec
  /\ m.packets # <<>>
  /\ m.packets[1].ok

\* C17: play's construction step returns the source only when the request,
\* the probe, the default track, the decoder and the decoding of one packet
\* all succeeded, with that packet buffered and its spec taken; otherwise play
\* returns the error with no source and the queue as it was; the queue never
\* holds anything without a constructed source.
C17_ConstructionFailsFast ==
  /\ [][(pc = "play_from_http" /\ pc' # pc)
          => IF StagesOk(media')
               THEN /\ pc' = "play_len"
                    /\ decRet' = "Ok"
                    /\ playSrc' # NoSource
                    /\ dec'.built
                    /\ dec'.pkt = 1
                    /\ dec'.offset = 0
                    /\ dec'.len = media'.packets[1].n
                    /\ dec'.spec = media'.packets[1].spec
               ELSE /\ pc' = "idle"
                    /\ ret' = Result("play", "Err")
                    /\ decRet' \notin {"Ok", "Some", "None"}
                    /\ playSrc' = NoSource
                    /\ dec' = dec
                    /\ UNCHANGED <<count, next_sounds, queues, sleepRx>>]_vars
  /\ [](count > 0 => dec.built)

\* play failed on a stream whose first packet does not decode: no source, an
\* empty queue.
C17_Witness ==
  /\ ret = Result("play", "Err")
  /\ decRet = "decode packet"
  /\ media.http /\ media.probe /\ media.track /\ media.codec
  /\ media.packets # <<>>
  /\ ~dec.built
  /\ count = 0
  /\ next_sounds = <<>>

\* C18: a stop() that finds the queue empty does not end the session a later
\* play starts: play appends with the flag clear, and a source is stopped by
\* the flag only if the flag was raised while its session was queued.
C18_IdleStopSparesNextPlay ==
  /\ (pc = "play_append" => ~stop)
  /\ \A h \in DOMAIN queues :
        (queues[h].id # 0 /\ queues[h].id \notin stopTargets) => ~queues[h].stopped
  /\ \A i \in DOMAIN next_sounds : ~next_sounds[i].stopped

\* stop() was called on the empty queue, then play: the session has passed
\* its first check and delivered a sample, nothing has stopped it and the
\* flag is clear.
C18_Witness ==
  /\ idleStop
  /\ nplays = 1
  /\ stopTargets = {}
  /\ queues[QueueRx].id = 1
  /\ queues[QueueRx].pos >= 1
  /\ IsLive(queues[QueueRx])
  /\ ~queues[QueueRx].stopped
  /\ ~stop

\* C19: is_paused() is true exactly when the last of the pause() and resume()
\* calls was pause(), false when there was none; so a pause() after a pause()
\* and a resume() after a resume() leave it as it was.
C19_PauseIsLastCall ==
  paused = (toggles # <<>> /\ toggles[Len(toggles)] = "pause")

\* pause() was called twice in a row and the player is paused.
C19_Witness ==
  /\ toggles = <<"pause", "pause">>
  /\ paused

\* C21: a station stored by create comes back from the search that follows it
\* equal to the station passed, with the id create returned: the tag list is
\* rebuilt unchanged from its stored form, for every tag list, the empty one
\* included.
C21_RoundTrip ==
  [][dbRet.op = "create" /\ dbRet'.op = "search"
       => \E i \in DOMAIN dbRet'.rows :
            dbRet'.rows[i] = [dbRet.arg EXCEPT !.id = dbRet.id]]_vars

\* C22: the library is a map from id to Station: a search returns exactly the
\* records created and not deleted since, each with the fields of its latest
\* update and each once, and no two rows share an id.
C22_LibraryIsMap ==
  /\ \A i, j \in DOMAIN table : table[i].id = table[j].id => i = j
  /\ dbRet.op = "search"
       => /\ {dbRet.rows[i] : i \in DOMAIN dbRet.rows} = {lib[id] : id \in DOMAIN lib}
          /\ Len(dbRet.rows) = Cardinality(DOMAIN lib)

\* C23: the query search_url builds is "hidebroken=true" followed, in this
\* order and only for the filter fields that are set, by "limit=<n>",
\* "offset=<n>" and "order=<value>", CreatedAt giving an empty value; for
\* every combination of filter fields.
C23_QueryOfFilter ==
  apiPc = "url_done"
    => /\ url.query =
            "hidebroken=true"
              \o (IF filter.limit = None THEN "" ELSE "&limit=" \o U32ToString(filter.limit[1]))
              \o (IF filter.offset = None THEN "" ELSE "&offset=" \o U32ToString(filter.offset[1]))
              \o (IF filter.order_by = None THEN "" ELSE "&order=")
       /\ (filter = [NoFilter EXCEPT !.limit = Some(10)] => url.query = "hidebroken=true&limit=10")
       /\ (filter = [NoFilter EXCEPT !.offset = Some(7)] => url.query = "hidebroken=true&offset=7")

C23_Witness ==
  /\ apiPc = "url_done"
  /\ filter = [order_by |-> Some("CreatedAt"), limit |-> Some(10), offset |-> Some(9)]
  /\ url.query = "hidebroken=true&limit=10&offset=9&order="

\* C24: what search and stations return is the catalog's response cut down
\* to the codecs MP3 and FLAC: every returned station has one of the two,
\* every record of the response with one of the two is returned, and the
\* returned stations stand in the order of the response.
C24_OnlySupportedCodecs ==
  apiPc = "done"
    => /\ \A i \in DOMAIN stations :
            /\ stations[i].codec \in {"MP3", "FLAC"}
            /\ \E j \in DOMAIN resp :
                 /\ resp[j].uuid = stations[i].provider_id
                 /\ resp[j].codec = stations[i].codec
       /\ \A j \in DOMAIN resp :
            resp[j].codec \in {"MP3", "FLAC"}
              => \E i \in DOMAIN stations : stations[i].provider_id = resp[j].uuid
       /\ \A i, j \in DOMAIN stations :
            i < j => stations[i].provider_id < stations[j].provider_id

C24_Witness ==
  /\ apiPc = "done"
  /\ url.path = "/json/stations/search"
  /\ Len(resp) = 3
  /\ resp[1].codec = "FLAC" /\ resp[2].codec = "mp3" /\ resp[3].codec = "MP3"
  /\ Len(stations) = 2
  /\ stations[1].provider_id = 1 /\ stations[2].provider_id = 3

\* C25: the database is opened at the value of --db-filepath when the option
\* is given and at "sqlite.db" in the configuration directory otherwise,
\* whatever --log-filepath is.
C25_DbPathFromDbOption ==
  startup.pc = "ui"
    => startup.db = (IF opt.db_filepath /= None
                       THEN opt.db_filepath[1]
                       ELSE "/home/u/.config/tradio/sqlite.db")

\* C26: a play call whose source was constructed while a session is still
\* queued eventually returns Ok with its source appended, whether the sink is
\* paused or playing and whether a device is bound or not.
C26_PlayReturns ==
  (pc = "play_len" /\ count > 0)
    ~> (pc = "idle" /\ ret = Result("play", "Ok") /\ playSrc = NoSource)

\* C27: with play called from two threads (and stop from either), the sink
\* queue never holds two sessions: sink.len() is at most 1 and at most one
\* session that has not ended sits in the queue.
C27_OneSessionTwoThreads ==
  /\ count <= 1
  /\ Cardinality(LiveSessions) <= 1

\* C28: at most one stream pulls from the shared queue: a use_device that
\* replaces a binding has torn the old stream down when it binds the new one
\* (between the two nothing pulls), and what the new stream pulls from is the
\* one shared queue output, not a copy.
C28_OneStreamBound ==
  /\ Cardinality(Pulling) <= 1
  /\ \A s \in Pulling : streams[s].src = QueueRx
  /\ Len(queues) = 1
  /\ (pc = "ud_bind" => Pulling = {})

C28_Witness ==
  /\ pc = "idle"
  /\ ret = [op |-> "use_device", res |-> "Ok", stream |-> 2]
  /\ ~streams[1].alive /\ streams[1].pulled
  /\ Pulling = {2}
  /\ streams[2].pulled

\* C29: whenever the ActiveOutput lock is free (what devices, active_device
\* and the entry of use_device see), the device is set exactly when the stream
\* is, and a device recorded as active has the shared queue bound to its
\* stream.
C29_ActiveMeansBound ==
  pc \notin UdPcs
    => /\ (active_out.device # NoDevice) <=> (active_out.stream # 0)
       /\ (active_out.device # NoDevice
             => /\ active_out.stream \in Pulling
                /\ streams[active_out.stream].src = QueueRx)

\* C30: the source never reads outside its buffer: offset stays between 0
\* and the buffer's length, and no pull indexes the buffer at or past its
\* length, whatever the packets decode to, zero samples included.
C30_ReadsInsideBuffer ==
  dec.built
    => /\ 0 <= dec.offset
       /\ dec.offset <= dec.len
       /\ decRet # "panic"

\* C31: channels() and sample_rate() are those of the packet whose samples
\* are buffered, also when a later packet's spec differs from the first's.
C31_SpecIsCurrent ==
  (dec.built /\ dec.pkt >= 1)
    => /\ Channels(dec) = SpecChannels(dec.packets[dec.pkt].spec)
       /\ SampleRate(dec) = SpecRate(dec.packets[dec.pkt].spec)

\* C32: a volume key never overflows i8 and leaves volume() within 0..100:
\* stepping up gives the volume plus 5, 100 from above 95; stepping down
\* gives the volume minus 5, 0 from below 5.
C32_VolumeKeysInRange ==
  /\ Volume(volume) \in 0 .. 100
  /\ ~volStep.overflow
  /\ (volStep.op = "up"
        => Volume(volume) = (IF volStep.from > 95 THEN 100 ELSE volStep.from + 5))
  /\ (volStep.op = "down"
        => Volume(volume) = (IF volStep.from < 5 THEN 0 ELSE volStep.from - 5))

C32_Witness ==
  /\ volStep = [op |-> "up", from |-> 97, overflow |-> FALSE]
  /\ lastVolIn = {102}
  /\ Volume(volume) = 100

\* C33: the recorded station changes only on success.  App::play_track and
\* Ui::handle_enter record the selected station exactly when player.play
\* returned Ok and leave the record as it was when play failed; App::stop
\* returns only with the queue drained, and then no station is recorded as
\* playing.
C33_RecordOnSuccess ==
  [][/\ (app.pc = "play_track" /\ app'.pc = "none"
          => app'.playing = (IF ret.res = "Ok" THEN app.arg ELSE app.playing))
     /\ (app.pc = "enter" /\ app'.pc = "none"
          => app'.active_station =
               (IF ret.res = "Ok" THEN app.arg ELSE app.active_station))
     /\ (app.pc = "stop_record" /\ app'.pc = "none"
          => count = 0 /\ next_sounds = <<>> /\ app'.playing = None)
     /\ (app'.playing # app.playing
          => app.pc \in {"play_track", "stop_record"} /\ app'.pc = "none")
     /\ (app'.active_station # app.active_station
          => app.pc = "enter" /\ app'.pc = "none")]_vars

\* A play has failed after a station was recorded as playing: the record is
\* the earlier station.
C33_WitnessFailedPlay ==
  /\ app.pc = "none"
  /\ app.ret = "Err"
  /\ app.playing = Some("u1")
  /\ app.active_station = None
  /\ nplays = 1

\* C34: App::use_device records the device id exactly when player.use_device
\* returned Ok; with a station recorded as playing it then calls player.play
\* with that station's url, and when that play fails the error is returned
\* with the new device recorded and the station still recorded as playing.
C34_DeviceThenReplay ==
  [][/\ (app.pc = "use_device" /\ app'.pc # "use_device"
          => /\ app'.device = (IF ret.res = "Ok" THEN app.arg ELSE app.device)
             /\ app'.playing = app.playing
             /\ IF ret.res = "Ok" /\ app.playing # None
                  THEN /\ app'.pc = "replay"
                       /\ pc' = "play_from_http"
                       /\ app'.url = app.playing
                  ELSE /\ app'.pc = "none"
                       /\ app'.ret = ret.res
                       /\ pc' = "idle")
     /\ (app.pc = "replay" /\ app'.pc # "replay"
          => /\ app'.pc = "none"
             /\ app'.ret = ret.res
             /\ app'.device = app.arg
             /\ app'.playing = app.playing
             /\ app.playing # None)
     /\ (app'.device # app.device => app.pc = "use_device")]_vars

\* The play re-issued after a switch to d2 has failed: the error is returned,
\* d2 is recorded and the station is still recorded as playing.
C34_WitnessReplayFailed ==
  /\ app.pc = "none"
  /\ app.op = "use_device"
  /\ app.ret = "Err"
  /\ app.device = Some("d2")
  /\ app.playing = Some("u1")
  /\ app.url = Some("u1")
  /\ active_out.device.id = "d2"

\* C35: the selection of a stateful Table designates an existing row: with a
\* non-empty list the selected index is below the list length, and no
\* handle_up, handle_down or get_selected underflows or indexes outside the
\* list.
C35_SelectionInList ==
  (tbl.kind = "table" /\ tbl.stateful)
    => /\ tbl.out \notin {"panic", "wrapped"}
       /\ (tbl.len > 0 /\ tbl.selected # None => tbl.selected[1] < tbl.len)

====
